---- MODULE Spec2Model ----
(***************************************************************************)
(* A model of molt's lock-file graph and of its Synchronizer.              *)
(*                                                                         *)
(*   Spec       one call of Synchronizer::sync (src/src/sync.rs): the      *)
(*              traversal of required_packages / collect_required and the  *)
(*              installation loop of install_into, on a Lock, a request    *)
(*              and an interpreter environment drawn from bounded sets.    *)
(*   SpecParse  one run of the Lock deserializer                           *)
(*              (src/src/lockfiles/locks.rs): node materialisation, then   *)
(*              edge linking, on a lock document drawn from a bounded set. *)
(*                                                                         *)
(* Option<T> is a sequence of length at most one: None is <<>>, Some(x)    *)
(* is <<x>>.  A Marker is the sequence of its condition strings, so a null *)
(* marker is <<>> and an attached marker with zero conditions is           *)
(* << <<>> >>.                                                             *)
(***************************************************************************)
EXTENDS Naturals, Integers, Sequences, FiniteSets, TLC

VARIABLES
    lock,           \* Lock.dependencies: key -> Dependency
    reqDefault,     \* sync's `default` argument
    reqExtras,      \* sync's `extras` argument, in iteration order
    env,            \* the target interpreter: condition string -> outcome
    pc,             \* position inside sync
    rootIdx,        \* required_packages: 0 = default section, i = i-th extra
    stack,          \* the active collect_required calls, innermost last
    into,           \* the `deps` / `into` HashMap: key -> PythonPackage
    required,       \* sync: what required_packages(..)? gave, once it has
    faults,         \* operating-system failures injected so far
    evalLog,        \* evaluator processes started, in order
    entered,        \* key -> number of collect_required calls on the node
    inserted,       \* key -> number of into.insert calls for the node
    expanded,       \* key -> number of times the node's edge loop was run
    packages,       \* install_into: the (key, package) pairs not yet prepared
    requirements,   \* install_into: key -> (temp file, hashed, path)
    tempfiles,      \* requirement temp files that exist on disk
    created,        \* every requirement temp file ever created by the run
    error_context,  \* install_into: the accumulated (key, exit code) list
    installLog,     \* installer processes started, in order
    begun,          \* install_into: keys whose second-loop turn has begun
    result,         \* what sync returned
    doc,            \* the lock document handed to the parser
    dents,          \* visit_map: the `dependencies` entries not yet consumed
    deps,           \* visit_map: the node table under construction
    links,          \* visit_map: key -> edge specification not yet linked
    parsed,         \* what the parser returned
    hashArray,      \* Hashes::deserialize: the array of strings to read
    hashSet,        \* Hashes::deserialize: the HashSet under construction
    hashLog,        \* the strings Hash::parse accepted, as parsed and shown
    hashesResult,   \* what Hashes::deserialize returned
    pyEntry,        \* the package body handed to make_python_package
    pyPackage,      \* what make_python_package returned
    requirementTxt, \* what to_requirement_txt returned for the package
    depsTable,      \* Dependencies.0: key -> the node the table holds
    detached,       \* the nodes the table held before they were replaced
    cells,          \* the number of Rc cells allocated so far
    lastCall,       \* the last call on the Dependencies and what it returned
    pipfile,        \* the PipfileLock handed to into_lock
    pfPc,           \* position inside into_lock
    pfDefault,      \* into_lock: the `default` packages not yet added
    pfDevelop,      \* into_lock: the `develop` packages not yet added
    pfLock,         \* what into_lock returned
    tree,           \* the filesystem along the path handed to find
    findPc,         \* position inside Project::find
    findP,          \* find: the path `p` the loop is looking at
    turns,          \* find: the turns of the loop begun so far
    found           \* what Project::find returned

vars == <<lock, reqDefault, reqExtras, env, pc, rootIdx, stack, into,
          required, faults, evalLog, entered, inserted, expanded, packages,
          requirements, tempfiles, created, error_context, installLog,
          begun, result,
          doc, dents, deps, links, parsed,
          hashArray, hashSet, hashLog, hashesResult,
          pyEntry, pyPackage, requirementTxt,
          depsTable, detached, cells, lastCall,
          pipfile, pfPc, pfDefault, pfDevelop, pfLock,
          tree, findPc, findP, turns, found>>

\* The parser's variables, and the Synchronizer's.
parseVars == <<doc, dents, deps, links, parsed>>
syncVars == <<lock, reqDefault, reqExtras, env, pc, rootIdx, stack, into,
              required, faults, evalLog, entered, inserted, expanded,
              packages, requirements, tempfiles, created, error_context,
              installLog, begun, result>>

\* The variables of Hashes::deserialize, and of make_python_package.
hashVars == <<hashArray, hashSet, hashLog, hashesResult>>
entryVars == <<pyEntry, pyPackage, requirementTxt>>

\* The variables of the Dependencies table and of PipfileLock::into_lock.
depsVars == <<depsTable, detached, cells, lastCall>>
pipfileVars == <<pipfile, pfPc, pfDefault, pfDevelop, pfLock>>

\* The variables of Project::find.
findVars == <<tree, findPc, findP, turns, found>>

\* What one call of sync leaves alone, and what one run of the Lock
\* deserializer leaves alone.
nonSyncVars ==
    <<parseVars, hashVars, entryVars, depsVars, pipfileVars, findVars>>
nonParseVars ==
    <<syncVars, hashVars, entryVars, depsVars, pipfileVars, findVars>>

----------------------------------------------------------------------------
(* Bounds of the model.                                                    *)

\* The largest number of edges of a Lock.
MaxEdges == 3
\* The largest number of extras in a request.
MaxExtras == 2
\* The number of nested collect_required calls the thread's stack can hold.
StackLimit == 6
\* The largest number of operating-system failures in one run.
MaxFaults == 1
\* The longest string of a hash array, and the longest hash array.
MaxHashLen == 3
MaxHashes == 2
\* The largest number of successful calls on one Dependencies table.
MaxCalls == 4
\* The largest number of components of a path handed to Project::find.
MaxDepth == 3
\* The number of turns of find's loop that are counted.
MaxTurns == 6

----------------------------------------------------------------------------
(* Option<T>.                                                              *)

None == <<>>
Some(x) == <<x>>
IsSome(o) == Len(o) = 1
Unwrap(o) == o[1]

\* Every enumeration of a finite set as a sequence: the orders in which a
\* HashMap may hand out its entries.
Orders(S) ==
    {s \in [1..Cardinality(S) -> S] :
        \A i, j \in 1..Cardinality(S) : i # j => s[i] # s[j]}

RECURSIVE SubsetsUpTo(_, _)
\* The subsets of S of at most n elements.
SubsetsUpTo(S, n) ==
    IF n = 0 THEN {{}}
    ELSE LET smaller == SubsetsUpTo(S, n - 1) IN
         smaller \cup {T \cup {x} : T \in smaller, x \in S}

RECURSIVE Join(_, _)
\* [String]::join
Join(strings, sep) ==
    IF Len(strings) = 0 THEN ""
    ELSE IF Len(strings) = 1 THEN strings[1]
    ELSE strings[1] \o sep \o Join(Tail(strings), sep)

----------------------------------------------------------------------------
(* The lock graph.                                                         *)

\* Dependencies::default looks up "".
DefaultKey == ""

\* Dependencies::extra looks up format!("[{}]", extra).
ExtraKey(extra) == "[" \o extra \o "]"

\* Dependencies::default
DefaultSection(l) ==
    IF DefaultKey \in DOMAIN l THEN Some(l[DefaultKey]) ELSE None

\* Dependencies::extra
ExtraSection(l, extra) ==
    IF ExtraKey(extra) \in DOMAIN l THEN Some(l[ExtraKey(extra)]) ELSE None

\* The condition strings of the markers of the model.
CondNt == "os_name == 'nt'"
CondPy == "python_version < '3.5'"
Conds == {CondNt, CondPy}

SectionKeys == {"", "[a]"}
PackageKeys == {"p", "q", "r"}
ExtraNames == {"a", "b"}

\* A Source: its base URL, the URL's host, and its no_verify_ssl flag.
LocalIndex ==
    [base_url |-> "http://localhost/simple", host |-> Some("localhost"),
     no_verify_ssl |-> TRUE]

\* PythonPackageSpecifier::Version and PythonPackageSpecifier::Url.
Version(version) == [kind |-> "Version", version |-> version]
UrlSpecifier(url) == [kind |-> "Url", url |-> url]

\* A Url is the record of its origin, host, path and fragment.
UrlOf(origin, host, path) ==
    [origin |-> origin, host |-> Some(host), path |-> path,
     fragment |-> None]

\* PythonPackage values: p is a pinned version with one hash, q a pinned
\* version of a source with no `hashes` entry, r an archive URL with a
\* `hashes` entry that is an empty array.
PackageOf(k) ==
    CASE k = "p" -> [name |-> "p", specifier |-> Version("1.0"),
                     source |-> None,
                     hashes |-> Some({"sha256:aa"})]
      [] k = "r" -> [name |-> "r",
                     specifier |-> UrlSpecifier(
                        UrlOf("https://example.com", "example.com",
                              "/r.zip")),
                     source |-> None, hashes |-> Some({})]
      [] OTHER   -> [name |-> k, specifier |-> Version("2.0"),
                     source |-> Some(LocalIndex), hashes |-> None]

\* Dependency.python: the section nodes carry no package.
PythonOf(k) == IF k \in PackageKeys THEN Some(PackageOf(k)) ELSE None

\* The edges a Lock of the model may have.
EdgePool ==
    { [from |-> "",    child |-> "p",   marker |-> None],
      [from |-> "",    child |-> "q",   marker |-> Some(<<CondNt, CondPy>>)],
      [from |-> "[a]", child |-> "q",   marker |-> None],
      [from |-> "p",   child |-> "q",   marker |-> Some(<<CondNt>>)],
      [from |-> "q",   child |-> "p",   marker |-> None],
      [from |-> "",    child |-> "[a]", marker |-> Some(<<CondPy>>)],
      [from |-> "[a]", child |-> "p",   marker |-> Some(<<>>)],
      [from |-> "[a]", child |-> "",    marker |-> None],
      [from |-> "",    child |-> "r",   marker |-> None] }

\* The Locks over a set of keys: every edge targets a node of the table.
EdgeSets(keys) ==
    SubsetsUpTo({e \in EdgePool : e.from \in keys /\ e.child \in keys},
               MaxEdges)

EdgesFrom(E, k) == {e \in E : e.from = k}

\* Dependency { key, python, dependencies }
Dependency(k, edges) ==
    [key |-> k, python |-> PythonOf(k),
     dependencies |-> [i \in 1..Len(edges) |->
                         [child |-> edges[i].child, marker |-> edges[i].marker]]]

----------------------------------------------------------------------------
(* Marker evaluation.                                                      *)

\* evaluate_marker's expression: "(c1) or (c2) or ...".
MarkerExpr(m) == Join([i \in 1..Len(m) |-> "(" \o m[i] \o ")"], " or ")

\* The markers the evaluator can be handed.
KnownMarkers ==
    {Unwrap(e.marker) : e \in {x \in EdgePool : IsSome(x.marker)}}

\* What the script leaves on stderr for a marker the library rejects:
\* `print(e, file=sys.stderr, end='')` prints the library's InvalidMarker
\* exception. The wording is the library's and the library is no part of
\* the sources, so the text is left open: it is any one of these.
Diagnostics == {"diagnostic-1", "diagnostic-2"}

\* The embedded script: packaging's Marker(expr).evaluate(), printed without
\* a newline; an InvalidMarker goes to stderr, as the text `text`, and
\* leaves stdout empty.
PythonOutput(expr, e, text) ==
    LET m == CHOOSE x \in KnownMarkers : MarkerExpr(x) = expr IN
    IF expr = "" \/ \E i \in 1..Len(m) : e[m[i]] = "Invalid"
    THEN [stdout |-> "", stderr |-> text]
    ELSE IF \E i \in 1..Len(m) : e[m[i]] = "True"
    THEN [stdout |-> "True", stderr |-> ""]
    ELSE [stdout |-> "False", stderr |-> ""]

\* evaluate_marker without its early return: the empty expression is handed
\* to the evaluator like any other.
MarkerIsEmptyNever(m) == FALSE

\* evaluate_marker's early return: any([]) is false, no process is started.
MarkerIsEmpty(m) == MarkerExpr(m) = ""

\* evaluate_marker reading everything but "True" as false.
MarkerResultLenient(out) ==
    [kind |-> "Ok", value |-> out.stdout = "True"]

\* evaluate_marker reading its output the wrong way round.
MarkerResultInverted(out) ==
    IF out.stdout = "True" THEN [kind |-> "Ok", value |-> FALSE]
    ELSE IF out.stdout = "False" THEN [kind |-> "Ok", value |-> TRUE]
    ELSE [kind |-> "InvalidMarkerError", stdout |-> out.stdout,
          stderr |-> out.stderr]

\* evaluate_marker's reading of the evaluator's stdout and stderr.
MarkerResult(out) ==
    IF out.stdout = "True" THEN [kind |-> "Ok", value |-> TRUE]
    ELSE IF out.stdout = "False" THEN [kind |-> "Ok", value |-> FALSE]
    ELSE [kind |-> "InvalidMarkerError", stdout |-> out.stdout,
          stderr |-> out.stderr]

----------------------------------------------------------------------------
(* Synchronizer::required_packages and collect_required.                   *)

Running == [kind |-> "Running"]

Top == stack[Len(stack)]
Current == lock[Top.node]

Bump(f, k) == [f EXCEPT ![k] = @ + 1]

\* collect_required without its guard.
AlreadyResolvedNever(m, dep) == FALSE

\* collect_required's guard: into.contains_key(current.key()).
AlreadyResolved(m, dep) == dep.key \in DOMAIN m

\* into.insert(key, python.clone())
Insert(m, k, v) == [x \in DOMAIN m \cup {k} |-> IF x = k THEN v ELSE m[x]]

\* A call of collect_required on `key`: a new frame, or the abort of the
\* process when the thread's stack is exhausted.
Call(key, st) ==
    /\ entered' = Bump(entered, key)
    /\ IF Len(st) >= StackLimit
       THEN /\ pc' = "aborted"
            /\ result' = [kind |-> "StackOverflow"]
            /\ stack' = st
       ELSE /\ pc' = "collect"
            /\ stack' = Append(st, [node |-> key, i |-> 0])
            /\ UNCHANGED result

\* An Err(..) returned through every `?` up to sync's caller.
Fail(err) ==
    /\ pc' = "done"
    /\ result' = err
    /\ stack' = <<>>

\* required_packages going on to the next root when a section is missing.
RequireSectionSkipMissing(section, err) ==
    IF IsSome(section)
    THEN Call(Unwrap(section).key, stack)
    ELSE UNCHANGED <<pc, stack, result, entered>>

\* required_packages noting the missing section without returning.
RequireSectionDeferred(section, err) ==
    IF IsSome(section)
    THEN Call(Unwrap(section).key, stack)
    ELSE result' = err /\ UNCHANGED <<pc, stack, entered>>

\* required_packages, `if let Some(s) = .. { collect_required(s, ..)? }
\* else { return Err(..) }`.
RequireSection(section, err) ==
    IF IsSome(section)
    THEN Call(Unwrap(section).key, stack)
    ELSE Fail(err) /\ UNCHANGED entered

\* required_packages, `if default { ... }`.
RequireDefault ==
    /\ pc = "roots" /\ rootIdx = 0
    /\ rootIdx' = 1
    /\ IF ~reqDefault
       THEN UNCHANGED <<pc, stack, result, entered>>
       ELSE RequireSection(DefaultSection(lock),
                           [kind |-> "DefaultSectionNotFound"])
    /\ UNCHANGED nonSyncVars
    /\ UNCHANGED <<lock, required, begun, reqDefault, reqExtras,
                   env, into, faults, evalLog,
                   inserted, expanded, packages, requirements, tempfiles,
                   created, error_context, installLog>>

\* required_packages, one turn of `for extra in extras { ... }`.
RequireExtra ==
    /\ pc = "roots" /\ rootIdx >= 1 /\ rootIdx <= Len(reqExtras)
    /\ rootIdx' = rootIdx + 1
    /\ LET extra == reqExtras[rootIdx] IN
       RequireSection(ExtraSection(lock, extra),
                      [kind |-> "ExtraSectionNotFound", name |-> extra])
    /\ UNCHANGED nonSyncVars
    /\ UNCHANGED <<lock, required, begun, reqDefault, reqExtras,
                   env, into, faults, evalLog,
                   inserted, expanded, packages, requirements, tempfiles,
                   created, error_context, installLog>>

\* required_packages, Ok(deps): sync goes on to install_into.
RequireDone ==
    /\ pc = "roots" /\ rootIdx > Len(reqExtras)
    /\ pc' = "env_root"
    /\ required' = Some(into)
    /\ UNCHANGED nonSyncVars
    /\ UNCHANGED <<lock, begun, reqDefault, reqExtras, env, rootIdx, stack, into,
                   faults, evalLog, entered, inserted, expanded, packages,
                   requirements, tempfiles, created, error_context,
                   installLog, result>>

\* collect_required, entry: the contains_key guard and the insert.
CollectEnter ==
    /\ pc = "collect" /\ Top.i = 0
    /\ IF AlreadyResolved(into, Current)
       THEN /\ stack' = SubSeq(stack, 1, Len(stack) - 1)
            /\ pc' = IF Len(stack) = 1 THEN "roots" ELSE "collect"
            /\ UNCHANGED <<into, inserted, expanded>>
       ELSE /\ stack' = [stack EXCEPT ![Len(stack)].i = 1]
            /\ expanded' = Bump(expanded, Top.node)
            /\ IF IsSome(Current.python)
               THEN /\ into' = Insert(into, Current.key, Unwrap(Current.python))
                    /\ inserted' = Bump(inserted, Top.node)
               ELSE UNCHANGED <<into, inserted>>
            /\ UNCHANGED pc
    /\ UNCHANGED nonSyncVars
    /\ UNCHANGED <<lock, required, begun, reqDefault, reqExtras,
                   env, rootIdx, faults, evalLog,
                   entered, packages, requirements, tempfiles, created,
                   error_context, installLog, result>>

\* The frames with the innermost one moved past all of its edges: the edge
\* loop left after its first turn.
AdvancedToEnd ==
    [stack EXCEPT ![Len(stack)].i = Len(Current.dependencies) + 1]

\* The frames with the innermost one moved past its current edge.
Advanced == [stack EXCEPT ![Len(stack)].i = @ + 1]

\* evaluate_marker, `int.command(..)?.arg(..).output()?`: the command
\* cannot be built (a pythons::Error, InterpreterError), the process cannot
\* be started (an io::Error, SystemError), or the evaluator runs.
EvaluatorStarts(n) ==
    IF n < MaxFaults THEN {"Ok", "InterpreterError", "SystemError"}
    ELSE {"Ok"}

\* collect_required, one turn of the edge loop.
CollectEdge ==
    /\ pc = "collect" /\ Top.i >= 1 /\ Top.i <= Len(Current.dependencies)
    /\ LET edge == Current.dependencies[Top.i] IN
       IF ~IsSome(edge.marker)
       THEN /\ Call(edge.child, Advanced)
            /\ UNCHANGED <<faults, evalLog>>
       ELSE IF MarkerIsEmpty(Unwrap(edge.marker))
       THEN /\ stack' = Advanced
            /\ UNCHANGED <<pc, result, entered, faults, evalLog>>
       ELSE \E started \in EvaluatorStarts(faults) :
            IF started # "Ok"
            THEN /\ Fail([kind |-> started])
                 /\ faults' = faults + 1
                 /\ UNCHANGED <<entered, evalLog>>
            ELSE \E text \in Diagnostics :
                 LET expr == MarkerExpr(Unwrap(edge.marker))
                     out == PythonOutput(expr, env, text)
                     r == MarkerResult(out) IN
                 /\ evalLog' = Append(evalLog,
                        [node |-> Top.node, edge |-> Top.i, expr |-> expr,
                         stdout |-> out.stdout, stderr |-> out.stderr])
                 /\ UNCHANGED faults
                 /\ IF r.kind # "Ok"
                    THEN Fail(r) /\ UNCHANGED entered
                    ELSE IF r.value
                    THEN Call(edge.child, Advanced)
                    ELSE /\ stack' = Advanced
                         /\ UNCHANGED <<pc, result, entered>>
    /\ UNCHANGED nonSyncVars
    /\ UNCHANGED <<lock, required, begun, reqDefault, reqExtras,
                   env, rootIdx, into, inserted,
                   expanded, packages, requirements, tempfiles, created,
                   error_context, installLog>>

\* collect_required, Ok(()) after the edge loop.
CollectReturn ==
    /\ pc = "collect" /\ Top.i > Len(Current.dependencies)
    /\ stack' = SubSeq(stack, 1, Len(stack) - 1)
    /\ pc' = IF Len(stack) = 1 THEN "roots" ELSE "collect"
    /\ UNCHANGED nonSyncVars
    /\ UNCHANGED <<lock, required, begun, reqDefault, reqExtras,
                   env, rootIdx, into, faults,
                   evalLog, entered, inserted, expanded, packages,
                   requirements, tempfiles, created, error_context,
                   installLog, result>>

----------------------------------------------------------------------------
(* PythonPackage::to_requirement_txt and Synchronizer::install_into.       *)

\* Url::to_string, Url::set_fragment, Url::set_path.
UrlToString(url) ==
    url.origin \o url.path
    \o (IF IsSome(url.fragment) THEN "#" \o Unwrap(url.fragment) ELSE "")
UrlSetFragment(url, fragment) == [url EXCEPT !.fragment = fragment]
UrlSetPath(url, path) == [url EXCEPT !.path = path]

\* Hashes is a HashSet: hashes.iter() hands out its elements in an order
\* that differs from process to process. The orders one call may see.
IterOrders(hashes) == IF IsSome(hashes) THEN Orders(Unwrap(hashes)) ELSE {<<>>}

\* to_requirement_txt, `for hash in hashes.iter()`: "--hash" and the hash,
\* for every hash in the order of the iteration.
HashArgs(order) ==
    [i \in 1..(2 * Len(order)) |->
        IF i % 2 = 1 THEN "--hash" ELSE order[i \div 2]]

\* The index options of a package that names a source.
SourceArgs(source) ==
    <<"--index-url=" \o source.base_url>>
    \o (IF source.no_verify_ssl /\ IsSome(source.host)
        THEN <<"--trusted-host=" \o Unwrap(source.host)>> ELSE <<>>)

\* to_requirement_txt: (hashes.is_some(), args.join(" ")), with the hashes
\* in the order `order` of this call's iteration.
ToRequirementTxt(package, order) ==
    LET spec == IF package.specifier.kind = "Version"
                THEN <<package.name \o " == "
                       \o package.specifier.version>>
                ELSE <<UrlToString(UrlSetFragment(package.specifier.url,
                          Some("egg=" \o package.name)))>>
        index == IF IsSome(package.source)
                 THEN SourceArgs(Unwrap(package.source)) ELSE <<>>
        hashes == IF IsSome(package.hashes) THEN HashArgs(order) ELSE <<>> IN
    [hashed |-> IsSome(package.hashes),
     text |-> Join(spec \o index \o hashes, " ")]

\* Requirement files that all have one and the same path.
TempPathShared(k) == "/tmp/req"

\* The path of the NamedTempFile created for a package.
TempPath(k) == "/tmp/req-" \o k

\* The --prefix argument: project.env_root() as a string.
EnvRoot == "__pypackages__/env"

\* The installer's command line.
PipArgs(requirement, hashed) ==
    <<"-m", "pip", "install", "--requirement", requirement,
      "--prefix", EnvRoot, "--no-deps">>
    \o (IF hashed THEN <<"--require-hashes">> ELSE <<>>)

\* ExitStatus values of the installer: code 0, code 1, killed by a signal.
Statuses == {Some(0), Some(1), None}

\* ExitStatus::success
Success(status) == status = Some(0)

\* An early return that leaves the requirement files on disk.
InstallFailLeak(err) ==
    /\ pc' = "done"
    /\ result' = err
    /\ UNCHANGED <<tempfiles, requirements, packages>>

\* An Err(..) returned from install_into by `?`: the requirements map and
\* the file being written are dropped, which deletes their temp files.
InstallFail(err) ==
    /\ pc' = "done"
    /\ result' = err
    /\ tempfiles' = << >>
    /\ requirements' = << >>
    /\ packages' = {}

\* sync after required_packages: project.env_root()?, prefix.to_str(), and
\* the resolved map handed over as the `packages` iterator.
InstallBegin ==
    /\ pc = "env_root"
    /\ \/ /\ faults < MaxFaults
          /\ faults' = faults + 1
          /\ \E kind \in {"ProjectError", "PathRepresentationError"} :
                InstallFail([kind |-> kind])
       \/ /\ packages' = DOMAIN into
          /\ pc' = IF DOMAIN into = {} THEN "install" ELSE "prepare"
          /\ UNCHANGED <<faults, tempfiles, requirements, result>>
    /\ UNCHANGED nonSyncVars
    /\ UNCHANGED <<lock, required, begun, reqDefault, reqExtras,
                   env, rootIdx, stack, into,
                   evalLog, entered, inserted, expanded, created,
                   error_context, installLog>>

\* The `?` returns of one turn of install_into's first loop, and whether
\* the turn's file had been created by then: NamedTempFile::new()? fails
\* before there is a file; writeln!(..)? and the path's to_str() fail after
\* it was created, and the file is deleted when `f` is dropped.
PrepareFaults ==
    {[kind |-> "SystemError", file |-> FALSE],
     [kind |-> "SystemError", file |-> TRUE],
     [kind |-> "PathRepresentationError", file |-> TRUE]}

\* install_into with one loop: each requirement file is handed to the
\* installer as soon as it is written.
PrepareRequirementInterleaved ==
    /\ pc = "prepare"
    /\ \E k \in packages :
       \/ /\ faults < MaxFaults
          /\ faults' = faults + 1
          /\ \E fault \in PrepareFaults :
                /\ InstallFail([kind |-> fault.kind])
                /\ created' = IF fault.file THEN created \cup {TempPath(k)}
                               ELSE created
       \/ \E order \in IterOrders(into[k].hashes) :
          LET txt == ToRequirementTxt(into[k], order)
              name == TempPath(k) IN
          /\ tempfiles' = Insert(tempfiles, name, txt.text \o "\n")
          /\ created' = created \cup {name}
          /\ requirements' = Insert(requirements, k,
                [file |-> name, hashed |-> txt.hashed, name |-> name])
          /\ packages' = packages \ {k}
          /\ pc' = "install"
          /\ UNCHANGED <<faults, result>>
    /\ UNCHANGED nonSyncVars
    /\ UNCHANGED <<lock, required, begun, reqDefault, reqExtras,
                   env, rootIdx, stack, into,
                   evalLog, entered, inserted, expanded, error_context,
                   installLog>>

\* install_into, one turn of the first loop: the requirement file of one
\* package is created and written.
PrepareRequirement ==
    /\ pc = "prepare"
    /\ \E k \in packages :
       \/ /\ faults < MaxFaults
          /\ faults' = faults + 1
          /\ \E fault \in PrepareFaults :
                /\ InstallFail([kind |-> fault.kind])
                /\ created' = IF fault.file THEN created \cup {TempPath(k)}
                               ELSE created
       \/ \E order \in IterOrders(into[k].hashes) :
          LET txt == ToRequirementTxt(into[k], order)
              name == TempPath(k) IN
          /\ tempfiles' = Insert(tempfiles, name, txt.text \o "\n")
          /\ created' = created \cup {name}
          /\ requirements' = Insert(requirements, k,
                [file |-> name, hashed |-> txt.hashed, name |-> name])
          /\ packages' = packages \ {k}
          /\ pc' = IF packages = {k} THEN "install" ELSE "prepare"
          /\ UNCHANGED <<faults, result>>
    /\ UNCHANGED nonSyncVars
    /\ UNCHANGED <<lock, required, begun, reqDefault, reqExtras,
                   env, rootIdx, stack, into,
                   evalLog, entered, inserted, expanded, error_context,
                   installLog>>

\* A map without one of its keys.
Without(m, k) == [x \in DOMAIN m \ {k} |-> m[x]]

\* install_into after cmd.status() returned: an unsuccessful status is
\* pushed onto error_context, the loop goes on, and the turn's temp file is
\* dropped.
InstallerReturned(k, status) ==
    /\ error_context' = IF Success(status) THEN error_context
                        ELSE Append(error_context, <<k, status>>)
    /\ requirements' = Without(requirements, k)
    /\ tempfiles' = Without(tempfiles, requirements[k].file)
    /\ UNCHANGED <<pc, result, packages>>

\* install_into, one turn of the second loop: one installer invocation.
RunInstaller ==
    /\ pc = "install"
    /\ \E k \in DOMAIN requirements :
       /\ begun' = begun \cup {k}
       /\ \/ /\ faults < MaxFaults
             /\ faults' = faults + 1
             /\ \E kind \in {"ProjectError", "SystemError"} :
                   InstallFail([kind |-> kind])
             /\ UNCHANGED <<error_context, installLog>>
          \/ \E status \in Statuses :
             LET r == requirements[k] IN
             /\ installLog' = Append(installLog,
                   [key |-> k, args |-> PipArgs(r.name, r.hashed),
                    read |-> IF r.name \in DOMAIN tempfiles
                             THEN Some(tempfiles[r.name]) ELSE None,
                    status |-> status])
             /\ InstallerReturned(k, status)
             /\ UNCHANGED faults
    /\ UNCHANGED nonSyncVars
    /\ UNCHANGED <<lock, required, reqDefault, reqExtras,
                   env, rootIdx, stack, into,
                   evalLog, entered, inserted, expanded, created>>

\* install_into's result, returned by sync.
InstallFinish ==
    /\ pc = "install" /\ DOMAIN requirements = {}
    /\ pc' = "done"
    /\ result' = IF Len(error_context) = 0 THEN [kind |-> "Ok"]
                 ELSE [kind |-> "InstallCommandError",
                       errors |-> error_context]
    /\ UNCHANGED nonSyncVars
    /\ UNCHANGED <<lock, required, begun, reqDefault, reqExtras,
                   env, rootIdx, stack, into,
                   faults, evalLog, entered, inserted, expanded, packages,
                   requirements, tempfiles, created, error_context,
                   installLog>>

----------------------------------------------------------------------------
(* The Lock deserializer: LockVisitor::visit_map.                          *)

\* The keys of the documents of the model; "ghost" is only ever referenced.
DocKeys == {"", "p", "q"}
ChildKeys == DocKeys \cup {"ghost"}

\* The `sources` table of the documents, and the names a body may give.
DocSources == {"pypi"}
SourceNames == {"pypi", "nosuch"}

\* The JSON values a child entry of a document may have.
JsonNull == [json |-> "null"]
JsonArray(items) == [json |-> "array", items |-> items]

RECURSIVE MarkerVisitSeq(_, _)
\* MarkerVisitor::visit_seq: every element of the array is pushed onto
\* `strings`, in the order seq.next_element() hands them out.
MarkerVisitSeq(seq, strings) ==
    IF Len(seq) = 0 THEN strings
    ELSE MarkerVisitSeq(Tail(seq), Append(strings, Head(seq)))

\* A deserializer that reads an empty array as no marker.
DeserializeOptionMarkerEmptyAsNull(v) ==
    IF v = JsonNull \/ Len(v.items) = 0 THEN None
    ELSE Some(MarkerVisitSeq(v.items, << >>))

\* Option<Marker>::deserialize: null is None, an array is Some(Marker).
DeserializeOptionMarker(v) ==
    IF v = JsonNull THEN None ELSE Some(MarkerVisitSeq(v.items, << >>))

\* The values the entry of a child key may have in the documents of the
\* model: null, an empty array, or an array of two conditions.
EntryValues(c) ==
    CASE c = "p" -> {JsonNull, JsonArray(<< >>), JsonArray(<<CondNt, CondPy>>)}
      [] c = "q" -> {JsonNull, JsonArray(<<CondNt, CondPy>>)}
      [] c = ""  -> {JsonNull, JsonArray(<< >>)}
      [] OTHER   -> {JsonNull}

\* The child entries a document of the model may have.
EntryPool ==
    UNION {{[from |-> k, child |-> c, marker |-> m] : m \in EntryValues(c)} :
              k \in DocKeys, c \in ChildKeys}

\* `dependencies` is a JSON object: one entry per child key.
EntrySets(keys) ==
    {E \in SubsetsUpTo({e \in EntryPool : e.from \in keys}, MaxEdges) :
        /\ \A e, f \in E : (e.from = f.from /\ e.child = f.child) => e = f}

\* The body of key k in the document: its `python` entry and its child
\* entries.
DependencyEntry(k, E, source) ==
    [python |-> IF k = "" THEN None
                ELSE Some([name |-> k, specifier |-> Version("1.0"),
                           source |-> IF k = "p" THEN source ELSE None]),
     dependencies |-> [c \in {e.child : e \in EdgesFrom(E, k)} |->
                         (CHOOSE e \in EdgesFrom(E, k) : e.child = c).marker]]

\* DependencyEntry::deserialize (derived): the body with the value of each
\* child entry read as an Option<Marker>.
DeserializeDependencyEntry(body) ==
    [python |-> body.python,
     dependencies |-> [c \in DOMAIN body.dependencies |->
                         DeserializeOptionMarker(body.dependencies[c])]]

\* Sources::get
SourcesGet(sources, name) ==
    IF name \in sources THEN Some(name) ELSE None

\* PythonPackageEntry::make_python_package: the source name is resolved.
MakePythonPackage(entry, sources, hashes) ==
    LET source == IF IsSome(entry.source)
                  THEN SourcesGet(sources, Unwrap(entry.source))
                  ELSE None IN
    IF IsSome(entry.source) /\ ~IsSome(source)
    THEN [kind |-> "Err",
          msg |-> "unresolvable source name \"" \o Unwrap(entry.source)
                  \o "\""]
    ELSE [kind |-> "Ok",
          value |-> [name |-> entry.name, specifier |-> entry.specifier,
                     source |-> source, hashes |-> hashes]]

\* DependencyEntry::make_python
MakePython(body, sources, hashes) ==
    IF ~IsSome(body.python) THEN [kind |-> "Ok", value |-> None]
    ELSE LET r == MakePythonPackage(Unwrap(body.python), sources, hashes) IN
         IF r.kind = "Ok" THEN [kind |-> "Ok", value |-> Some(r.value)]
         ELSE r

\* DependencyEntry::into_unlinked_dependency: the bare node and its edge
\* specification, or the error of the package body.
IntoUnlinkedDependency(body, key, sources, hashes) ==
    LET r == MakePython(body, sources, hashes) IN
    IF r.kind # "Ok" THEN r
    ELSE [kind |-> "Ok",
          dep |-> [key |-> key, python |-> r.value, dependencies |-> << >>],
          link |-> body.dependencies]

\* Dependencies::add_dependence on a table that drops an edge whose target
\* is missing instead of reporting it.
AddDependenceLenient(table, dependent, depended, marker) ==
    IF depended \notin DOMAIN table \/ dependent \notin DOMAIN table
    THEN [kind |-> "Ok", table |-> table]
    ELSE [kind |-> "Ok",
          table |-> [table EXCEPT ![dependent].dependencies =
                        Append(@, [child |-> depended, marker |-> marker,
                                   cell |-> table[depended].cell])]]

\* Dependencies::add_dependence pushing a copy of the depended node, in a
\* cell of its own, instead of a clone of the table's handle.
AddDependenceCopy(table, dependent, depended, marker) ==
    IF depended \notin DOMAIN table
    THEN [kind |-> "Err", key |-> depended]
    ELSE IF dependent \notin DOMAIN table
    THEN [kind |-> "Err", key |-> dependent]
    ELSE [kind |-> "Ok",
          table |-> [table EXCEPT ![dependent].dependencies =
                        Append(@, [child |-> depended, marker |-> marker,
                                   cell |-> table[depended].cell
                                            + Cardinality(DOMAIN table)])]]

\* Dependencies::add_dependence looking up the dependent key first.
AddDependenceDependentFirst(table, dependent, depended, marker) ==
    IF dependent \notin DOMAIN table
    THEN [kind |-> "Err", key |-> dependent]
    ELSE IF depended \notin DOMAIN table
    THEN [kind |-> "Err", key |-> depended]
    ELSE [kind |-> "Ok",
          table |-> [table EXCEPT ![dependent].dependencies =
                        Append(@, [child |-> depended, marker |-> marker,
                                   cell |-> table[depended].cell])]]

\* Dependencies::add_dependence: the depended key is looked up first, then
\* the dependent; the edge pushed onto the dependent's list holds a clone
\* of the depended node's handle, which points to the same cell.
AddDependence(table, dependent, depended, marker) ==
    IF depended \notin DOMAIN table
    THEN [kind |-> "Err", key |-> depended]
    ELSE IF dependent \notin DOMAIN table
    THEN [kind |-> "Err", key |-> dependent]
    ELSE [kind |-> "Ok",
          table |-> [table EXCEPT ![dependent].dependencies =
                        Append(@, [child |-> depended, marker |-> marker,
                                   cell |-> table[depended].cell])]]

RECURSIVE PopulateDependencies(_, _, _, _)
\* Dependency::populate_dependencies: the entries of the node's edge
\* specification, in the order `order` of the map's iteration, resolved
\* against the node table.
PopulateDependencies(table, key, link, order) ==
    IF Len(order) = 0 THEN [kind |-> "Ok", table |-> table]
    ELSE LET r == AddDependence(table, key, order[1], link[order[1]]) IN
         IF r.kind # "Ok"
         THEN [kind |-> "Err",
               msg |-> "unresolvable dependency key " \o r.key]
         ELSE PopulateDependencies(r.table, key, link, Tail(order))

NotParsed == [kind |-> "Running"]

\* Rc::new(RefCell::new(dep)): the node is put in a fresh cell; cells are
\* numbered in the order of their allocation.
RcNew(dep, table) ==
    [key |-> dep.key, python |-> dep.python,
     dependencies |-> dep.dependencies,
     cell |-> Cardinality(DOMAIN table) + 1]

\* visit_map returning the node table as soon as the nodes are built.
ReturnLockUnlinked ==
    /\ parsed = NotParsed /\ DOMAIN dents = {}
    /\ parsed' = [kind |-> "Ok",
                  lock |-> [sources |-> doc.sources, dependencies |-> deps]]
    /\ UNCHANGED <<doc, dents, deps, links>>
    /\ UNCHANGED nonParseVars

\* visit_map, one turn of the first loop: one entry of `dependencies` is
\* turned into a bare node and its edge specification.
Materialize ==
    /\ parsed = NotParsed /\ DOMAIN dents # {}
    /\ \E k \in DOMAIN dents :
       LET hash == IF k \in DOMAIN doc.hashes THEN Some(doc.hashes[k])
                   ELSE None
           dp == IntoUnlinkedDependency(dents[k], k, doc.sources, hash) IN
       IF dp.kind # "Ok"
       THEN /\ parsed' = dp
            /\ dents' = << >> /\ deps' = << >> /\ links' = << >>
       ELSE /\ deps' = Insert(deps, k, RcNew(dp.dep, deps))
            /\ links' = Insert(links, k, dp.link)
            /\ dents' = Without(dents, k)
            /\ UNCHANGED parsed
    /\ UNCHANGED doc
    /\ UNCHANGED nonParseVars

\* A second loop that does not wait for the end of the first.
LinkEager ==
    /\ parsed = NotParsed /\ DOMAIN links # {}
    /\ \E k \in DOMAIN links :
       \E order \in Orders(DOMAIN links[k]) :
       LET r == PopulateDependencies(deps, k, links[k], order) IN
       IF r.kind # "Ok"
       THEN /\ parsed' = r
            /\ dents' = << >> /\ deps' = << >> /\ links' = << >>
       ELSE /\ deps' = r.table
            /\ links' = Without(links, k)
            /\ UNCHANGED <<parsed, dents>>
    /\ UNCHANGED doc
    /\ UNCHANGED nonParseVars

\* visit_map, one turn of the second loop: the edges of one node are
\* connected.
Link ==
    /\ parsed = NotParsed /\ DOMAIN dents = {} /\ DOMAIN links # {}
    /\ \E k \in DOMAIN links :
       \E order \in Orders(DOMAIN links[k]) :
       LET r == PopulateDependencies(deps, k, links[k], order) IN
       IF r.kind # "Ok"
       THEN /\ parsed' = r
            /\ deps' = << >> /\ links' = << >>
       ELSE /\ deps' = r.table
            /\ links' = Without(links, k)
            /\ UNCHANGED parsed
    /\ UNCHANGED <<doc, dents>>
    /\ UNCHANGED nonParseVars

\* visit_map, Ok(Lock { sources, dependencies }).
ReturnLock ==
    /\ parsed = NotParsed /\ DOMAIN dents = {} /\ DOMAIN links = {}
    /\ parsed' = [kind |-> "Ok",
                  lock |-> [sources |-> doc.sources, dependencies |-> deps]]
    /\ UNCHANGED <<doc, dents, deps, links>>
    /\ UNCHANGED nonParseVars

----------------------------------------------------------------------------
(* Hash and Hashes (src/rust/lockfiles/hashes.rs).  A string is the        *)
(* sequence of its characters.                                             *)

\* The characters of the strings of the model, and the strings.
HashChars == {"a", ":"}
HashStrings == UNION {[1..n -> HashChars] : n \in 0..MaxHashLen}

RECURSIVE Split(_, _)
\* str::split: the pieces of v between the occurrences of sep, of which
\* there is always at least one.
Split(v, sep) ==
    IF \A i \in 1..Len(v) : v[i] # sep THEN <<v>>
    ELSE LET i == CHOOSE i \in 1..Len(v) :
                    v[i] = sep /\ \A j \in 1..(i - 1) : v[j] # sep IN
         <<SubSeq(v, 1, i - 1)>> \o Split(SubSeq(v, i + 1, Len(v)), sep)

\* Hash::new
HashNew(name, value) == [name |-> name, value |-> value]

\* Hash::parse: the first two pieces of v.split(':'); None if there is no
\* second piece.
HashParse(v) ==
    LET it == Split(v, ":") IN
    IF Len(it) < 2 THEN None ELSE Some(HashNew(it[1], it[2]))

\* Display for Hash: "{name}:{value}".
HashDisplay(hash) == hash.name \o <<":">> \o hash.value

\* A set that keeps only the element inserted last.
HashSetInsertLast(set, v) == {v}

\* HashSet::insert
HashSetInsert(set, v) == set \cup {v}

\* HashesVisitor::visit_seq, one turn of the loop: seq.next_element()?
\* deserializes one string with Hash::parse; an error ends the call.
NextElement ==
    /\ hashesResult = Running
    /\ Len(hashLog) < Len(hashArray)
    /\ LET v == hashArray[Len(hashLog) + 1]
           parsedHash == HashParse(v) IN
       IF IsSome(parsedHash)
       THEN /\ hashSet' = HashSetInsert(hashSet, Unwrap(parsedHash))
            /\ hashLog' = Append(hashLog,
                   [input |-> v, hash |-> Unwrap(parsedHash),
                    shown |-> HashDisplay(Unwrap(parsedHash))])
            /\ UNCHANGED hashesResult
       ELSE /\ hashesResult' = [kind |-> "Err", unexpected |-> v,
                                expected |-> "<name>:<value>"]
            /\ UNCHANGED <<hashSet, hashLog>>
    /\ UNCHANGED hashArray
    /\ UNCHANGED <<syncVars, parseVars, entryVars, depsVars, pipfileVars,
                   findVars>>

\* HashesVisitor::visit_seq: Ok(Hashes(hashes)).
ReturnHashes ==
    /\ hashesResult = Running
    /\ Len(hashLog) = Len(hashArray)
    /\ hashesResult' = [kind |-> "Ok", hashes |-> hashSet]
    /\ UNCHANGED <<hashArray, hashSet, hashLog>>
    /\ UNCHANGED <<syncVars, parseVars, entryVars, depsVars, pipfileVars,
                   findVars>>

----------------------------------------------------------------------------
(* Entry::make_python_package and Package::to_requirement_txt              *)
(* (src/rust/lockfiles/pypackages.rs).  A Url is the record of its origin, *)
(* host, path and fragment.                                                *)

\* The Sources table of the model: name -> Source.
EntrySources == [n \in DocSources |-> LocalIndex]

\* The values the fields of a package body take when they are set.
ArchiveUrl ==
    [origin |-> "https://example.com", host |-> Some("example.com"),
     path |-> "/p.zip", fragment |-> None]
RepoUrl ==
    [origin |-> "git+https://example.com", host |-> Some("example.com"),
     path |-> "/p.git", fragment |-> None]

\* The package bodies of the model: every combination of set and unset
\* fields.
Entries ==
    [name : {"p"},
     version : {None, Some("1.0")},
     source : {None} \cup {Some(n) : n \in SourceNames},
     url : {None, Some(ArchiveUrl)},
     no_verify_ssl : BOOLEAN,
     path : {None, Some("./p")},
     vcs : {None, Some(RepoUrl)},
     rev : {None, Some("abc")}]

\* The `specifier` local of make_python_package: nothing or an error so
\* far, or the specifier made of the fields read so far.
NoSpecifier == [kind |-> "Ok", specifier |-> None]
Specified(specifier) == [kind |-> "Ok", specifier |-> Some(specifier)]
Custom(msg) == [kind |-> "Err", msg |-> msg]
MissingField(field) == [kind |-> "Err", missing_field |-> field]

\* make_python_package, `if let Some(ref v) = self.version`: the source
\* name, if any, is resolved.
StepVersion(e, sources) ==
    IF ~IsSome(e.version) THEN NoSpecifier
    ELSE IF IsSome(e.source)
            /\ ~IsSome(SourcesGet(DOMAIN sources, Unwrap(e.source)))
    THEN Custom("unresolvable source \"" \o Unwrap(e.source) \o "\"")
    ELSE Specified([kind |-> "Version", version |-> Unwrap(e.version),
                    source |-> IF IsSome(e.source)
                               THEN Some(sources[Unwrap(e.source)])
                               ELSE None])

\* A url field that replaces the specifier read before it.
StepUrlOverride(e, acc) ==
    IF acc.kind = "Err" \/ ~IsSome(e.url) THEN acc
    ELSE Specified([kind |-> "Url", url |-> Unwrap(e.url),
                    no_verify_ssl |-> e.no_verify_ssl])

\* make_python_package, `if let Some(ref url) = self.url`
StepUrl(e, acc) ==
    IF acc.kind = "Err" \/ ~IsSome(e.url) THEN acc
    ELSE IF IsSome(acc.specifier) THEN Custom("redundant package fields")
    ELSE Specified([kind |-> "Url", url |-> Unwrap(e.url),
                    no_verify_ssl |-> e.no_verify_ssl])

\* make_python_package, `if let Some(ref path) = self.path`
StepPath(e, acc) ==
    IF acc.kind = "Err" \/ ~IsSome(e.path) THEN acc
    ELSE IF IsSome(acc.specifier) THEN Custom("redundant package fields")
    ELSE Specified([kind |-> "Path", path |-> Unwrap(e.path)])

\* make_python_package, `if let Some(ref vcs) = self.vcs`: the redundancy
\* test comes before the test of `rev`.
StepVcs(e, acc) ==
    IF acc.kind = "Err" \/ ~IsSome(e.vcs) THEN acc
    ELSE IF IsSome(acc.specifier) THEN Custom("redundant package fields")
    ELSE IF ~IsSome(e.rev) THEN MissingField("rev")
    ELSE Specified([kind |-> "Vcs", url |-> Unwrap(e.vcs),
                    rev |-> Unwrap(e.rev)])

\* Entry::make_python_package
EntryMakePythonPackage(e, sources, hashes) ==
    LET acc == StepVcs(e, StepPath(e, StepUrl(e, StepVersion(e, sources)))) IN
    IF acc.kind = "Err" THEN acc
    ELSE IF ~IsSome(acc.specifier) THEN Custom("missing package fields")
    ELSE [kind |-> "Ok",
          value |-> [name |-> e.name, specifier |-> Unwrap(acc.specifier),
                     hashes |-> hashes]]

\* Package::to_requirement_txt, the arguments of the specifier.
SpecifierArgs(name, specifier) ==
    CASE specifier.kind = "Version" ->
            <<name \o " == " \o specifier.version>>
            \o (IF IsSome(specifier.source)
                THEN SourceArgs(Unwrap(specifier.source)) ELSE <<>>)
      [] specifier.kind = "Url" ->
            LET url == UrlSetFragment(specifier.url, Some("egg=" \o name)) IN
            <<UrlToString(url)>>
            \o (IF specifier.no_verify_ssl /\ IsSome(url.host)
                THEN <<"--trusted-host=" \o Unwrap(url.host)>> ELSE <<>>)
      [] specifier.kind = "Path" -> <<specifier.path>>
      [] OTHER ->
            LET path == specifier.url.path \o "@" \o specifier.rev
                url == UrlSetFragment(UrlSetPath(specifier.url, path),
                                      Some("egg=" \o name)) IN
            <<UrlToString(url)>>

\* Package::to_requirement_txt: (hashes.is_some(), args.join(" ")), with
\* the hashes in the order `order` of this call's iteration.
PackageToRequirementTxt(pkg, order) ==
    LET args == SpecifierArgs(pkg.name, pkg.specifier)
                \o (IF IsSome(pkg.hashes) THEN HashArgs(order) ELSE <<>>) IN
    [hashed |-> IsSome(pkg.hashes), text |-> Join(args, " ")]

\* One call of make_python_package on the body, with the hashes of its key.
MakePackage ==
    /\ pyPackage = Running
    /\ \E hashes \in {None, Some({"sha256:aa"}),
                       Some({"sha256:aa", "sha256:bb"})} :
          pyPackage' = EntryMakePythonPackage(pyEntry, EntrySources, hashes)
    /\ UNCHANGED <<pyEntry, requirementTxt>>
    /\ UNCHANGED <<syncVars, parseVars, hashVars, depsVars, pipfileVars,
                   findVars>>

\* One call of to_requirement_txt on the package that was made.
RenderPackage ==
    /\ pyPackage.kind = "Ok"
    /\ requirementTxt = None
    /\ \E order \in IterOrders(pyPackage.value.hashes) :
          requirementTxt' =
             Some(PackageToRequirementTxt(pyPackage.value, order))
    /\ UNCHANGED <<pyEntry, pyPackage>>
    /\ UNCHANGED <<syncVars, parseVars, hashVars, depsVars, pipfileVars,
                   findVars>>

\* No sync call, no Lock deserializer, no Hashes deserializer and no
\* make_python_package call is under way.
SyncIdle ==
    /\ lock = << >> /\ reqDefault = FALSE /\ reqExtras = << >>
    /\ env = << >> /\ pc = "idle" /\ rootIdx = 0 /\ stack = << >>
    /\ into = << >> /\ required = None /\ faults = 0 /\ evalLog = << >>
    /\ entered = << >> /\ inserted = << >> /\ expanded = << >>
    /\ packages = {} /\ requirements = << >> /\ tempfiles = << >>
    /\ created = {} /\ error_context = << >> /\ installLog = << >>
    /\ begun = {}
    /\ result = Running
ParseIdle ==
    /\ doc = << >> /\ dents = << >> /\ deps = << >> /\ links = << >>
    /\ parsed = NotParsed
HashesIdle ==
    /\ hashArray = << >> /\ hashSet = {} /\ hashLog = << >>
    /\ hashesResult = Running
EntryIdle ==
    /\ pyEntry = << >> /\ pyPackage = Running /\ requirementTxt = None
DepsIdle ==
    /\ depsTable = << >> /\ detached = {} /\ cells = 0
    /\ lastCall = Running
PipfileIdle ==
    /\ pipfile = << >> /\ pfPc = "idle" /\ pfDefault = << >>
    /\ pfDevelop = << >> /\ pfLock = Running
FindIdle ==
    /\ tree = << >> /\ findPc = "idle" /\ findP = << >> /\ turns = 0
    /\ found = Running

\* The requests: extras in any order, with repetitions.
ExtraLists == UNION {[1..n -> ExtraNames] : n \in 0..MaxExtras}

\* The interpreter environments: what the evaluator prints for each
\* condition. CondPy is the condition it may fail to evaluate.
Envs ==
    {e \in [Conds -> {"True", "False", "Invalid"}] : e[CondNt] # "Invalid"}

\* An interpreter as a whole: its environment and the text its library
\* prints for a marker it rejects.
Interpreters == [env : Envs, text : Diagnostics]

Init ==
    /\ \E present \in SUBSET SectionKeys :
       \E E \in EdgeSets(present \cup PackageKeys) :
       \E o1 \in Orders(EdgesFrom(E, "")), o2 \in Orders(EdgesFrom(E, "[a]")),
          o3 \in Orders(EdgesFrom(E, "p")), o4 \in Orders(EdgesFrom(E, "q")) :
          lock = [k \in present \cup PackageKeys |->
                    Dependency(k, CASE k = "" -> o1 [] k = "[a]" -> o2
                                    [] k = "p" -> o3 [] k = "q" -> o4
                                    [] OTHER -> << >>)]
    /\ reqDefault \in BOOLEAN
    /\ reqExtras \in ExtraLists
    /\ env \in Envs
    /\ pc = "roots"
    /\ rootIdx = 0
    /\ stack = << >>
    /\ into = << >>
    /\ required = None
    /\ faults = 0
    /\ evalLog = << >>
    /\ entered = [k \in SectionKeys \cup PackageKeys |-> 0]
    /\ inserted = [k \in SectionKeys \cup PackageKeys |-> 0]
    /\ expanded = [k \in SectionKeys \cup PackageKeys |-> 0]
    /\ packages = {}
    /\ requirements = << >>
    /\ tempfiles = << >>
    /\ created = {}
    /\ error_context = << >>
    /\ installLog = << >>
    /\ begun = {}
    /\ result = Running
    /\ ParseIdle /\ HashesIdle /\ EntryIdle /\ DepsIdle /\ PipfileIdle
    /\ FindIdle

Next ==
    \/ RequireDefault
    \/ RequireExtra
    \/ RequireDone
    \/ CollectEnter
    \/ CollectEdge
    \/ CollectReturn
    \/ InstallBegin
    \/ PrepareRequirement
    \/ RunInstaller
    \/ InstallFinish

Spec == Init /\ [][Next]_vars

----------------------------------------------------------------------------
(* The specification of one run of the deserializer.                       *)

InitParse ==
    /\ \E keys \in SUBSET DocKeys :
       \E E \in EntrySets(keys) :
       \E source \in {None} \cup {Some(n) : n \in SourceNames} :
          doc = [sources |-> DocSources,
                 dependencies |-> [k \in keys |-> DependencyEntry(k, E, source)],
                 hashes |-> [k \in keys \cap {"p"} |-> {"sha256:aa"}]]
    /\ dents = [k \in DOMAIN doc.dependencies |->
                  DeserializeDependencyEntry(doc.dependencies[k])]
    /\ deps = << >>
    /\ links = << >>
    /\ parsed = NotParsed
    /\ SyncIdle /\ HashesIdle /\ EntryIdle /\ DepsIdle /\ PipfileIdle
    /\ FindIdle

NextParse ==
    \/ Materialize
    \/ Link
    \/ ReturnLock

SpecParse == InitParse /\ [][NextParse]_vars

----------------------------------------------------------------------------
(* The specification of one run of the Hashes deserializer.                *)

InitHashes ==
    /\ hashArray \in UNION {[1..n -> HashStrings] : n \in 0..MaxHashes}
    /\ hashSet = {}
    /\ hashLog = << >>
    /\ hashesResult = Running
    /\ SyncIdle /\ ParseIdle /\ EntryIdle /\ DepsIdle /\ PipfileIdle
    /\ FindIdle

NextHashes ==
    \/ NextElement
    \/ ReturnHashes

SpecHashes == InitHashes /\ [][NextHashes]_vars

----------------------------------------------------------------------------
(* The specification of one package body turned into a Package.            *)

InitEntry ==
    /\ pyEntry \in Entries
    /\ pyPackage = Running
    /\ requirementTxt = None
    /\ SyncIdle /\ ParseIdle /\ HashesIdle /\ DepsIdle /\ PipfileIdle
    /\ FindIdle

NextEntry ==
    \/ MakePackage
    \/ RenderPackage

SpecEntry == InitEntry /\ [][NextEntry]_vars

----------------------------------------------------------------------------
(* Dependencies (src/rust/lockfiles/deps.rs): calls of add_dependency and  *)
(* add_dependence on one table, in any order.                              *)

\* The keys and the packages the calls of the model are made with.
DepKeys == {"", "p"}
DepPythons == {None, Some(PackageOf("p"))}
DepMarkers == {None, Some(<<CondNt>>)}

\* Dependencies::new
DependenciesNew == << >>

\* Dependencies::add_dependency: a new node with no edges, in a fresh cell,
\* is put in the table under `key`; HashMap::insert hands back the handle
\* the table held under that key before, if any.
AddDependency(table, key, python, cell) ==
    [old |-> IF key \in DOMAIN table THEN Some(table[key]) ELSE None,
     table |-> Insert(table, key,
                      [key |-> key, python |-> python,
                       dependencies |-> << >>, cell |-> cell])]

\* The number of edges of the nodes of a table.
RECURSIVE EdgeCount(_, _)
EdgeCount(table, keys) ==
    IF keys = {} THEN 0
    ELSE LET k == CHOOSE k \in keys : TRUE IN
         Len(table[k].dependencies) + EdgeCount(table, keys \ {k})

\* The number of edges of a set of nodes.
RECURSIVE EdgesOf(_)
EdgesOf(nodes) ==
    IF nodes = {} THEN 0
    ELSE LET n == CHOOSE n \in nodes : TRUE IN
         Len(n.dependencies) + EdgesOf(nodes \ {n})

\* The successful calls made on the table so far: each allocated a cell or
\* pushed an edge, onto a node the table holds or onto one it held then.
Calls == cells + EdgeCount(depsTable, DOMAIN depsTable) + EdgesOf(detached)

\* The node that lives in a cell: a node of the table, or one the table
\* held before.
NodeOfCell(c) ==
    CHOOSE n \in {depsTable[k] : k \in DOMAIN depsTable} \cup detached :
        n.cell = c

RECURSIVE GraphNodes(_)
\* The nodes reachable from a set of nodes along the handles of their
\* edges.
GraphNodes(S) ==
    LET more == S \cup UNION {{NodeOfCell(n.dependencies[i].cell) :
                                  i \in 1..Len(n.dependencies)} : n \in S} IN
    IF more = S THEN S ELSE GraphNodes(more)

\* The nodes of the graph of the table.
TableGraph == GraphNodes({depsTable[k] : k \in DOMAIN depsTable})

\* What a call found, for the record of the call.
Before == [table |-> depsTable, detached |-> detached, cells |-> cells]

\* One call of add_dependency.
AddDependencyCall ==
    /\ lastCall # Running
    /\ Calls < MaxCalls
    /\ \E key \in DepKeys, python \in DepPythons :
       LET r == AddDependency(depsTable, key, python, cells + 1) IN
       /\ depsTable' = r.table
       /\ cells' = cells + 1
       /\ detached' = detached \cup
                        (IF IsSome(r.old) THEN {Unwrap(r.old)} ELSE {})
       /\ lastCall' = [op |-> "add_dependency", key |-> key,
                       python |-> python, before |-> Before,
                       returned |-> r.old]
    /\ UNCHANGED <<syncVars, parseVars, hashVars, entryVars, pipfileVars,
                   findVars>>

\* One call of add_dependence.
AddDependenceCall ==
    /\ lastCall # Running
    /\ \E dependent \in DepKeys, depended \in DepKeys, marker \in DepMarkers :
       LET r == AddDependence(depsTable, dependent, depended, marker) IN
       /\ r.kind = "Ok" => Calls < MaxCalls
       /\ depsTable' = IF r.kind = "Ok" THEN r.table ELSE depsTable
       /\ lastCall' = [op |-> "add_dependence", dependent |-> dependent,
                       depended |-> depended, marker |-> marker,
                       before |-> Before,
                       returned |-> IF r.kind = "Ok" THEN [kind |-> "Ok"]
                                    ELSE r]
    /\ UNCHANGED <<detached, cells>>
    /\ UNCHANGED <<syncVars, parseVars, hashVars, entryVars, pipfileVars,
                   findVars>>

InitDeps ==
    /\ depsTable = DependenciesNew
    /\ detached = {}
    /\ cells = 0
    /\ lastCall = [op |-> "new"]
    /\ SyncIdle /\ ParseIdle /\ HashesIdle /\ EntryIdle /\ PipfileIdle
    /\ FindIdle

NextDeps ==
    \/ AddDependencyCall
    \/ AddDependenceCall

SpecDeps == InitDeps /\ [][NextDeps]_vars

----------------------------------------------------------------------------
(* PipfileLock::into_lock (src/src/foreign/pipfile.rs).  A version string  *)
(* is the sequence of its characters.                                      *)

\* The package names, version strings and packages of the Pipfile.lock
\* documents of the model.
PipNames == {"p", "q"}
PipVersions ==
    {<<"=", "=", "1">>, <<"=", "=", "2">>, <<"*">>, <<"=", "é">>,
     <<"é", "a">>}
PipPackages ==
    [version : PipVersions, hashes : {None}, source : {None, Some("pypi")},
     editable : {FALSE}]

\* The sections a document may have: some of the names, each with a package.
PipSections == UNION {[names -> PipPackages] : names \in SUBSET PipNames}

\* _meta.sources of the documents.
PipSourceEntries ==
    <<[name |-> "pypi", verify_ssl |-> FALSE,
       url |-> [base_url |-> "http://localhost/simple",
                host |-> Some("localhost")]]>>

RECURSIVE ConvertSources(_, _)
\* convert_sources: sources.add(entry.name, entry.url, !entry.verify_ssl)
\* for every entry.
ConvertSources(entries, sources) ==
    IF Len(entries) = 0 THEN sources
    ELSE LET entry == Head(entries) IN
         ConvertSources(Tail(entries),
             Insert(sources, entry.name,
                    [base_url |-> entry.url.base_url, host |-> entry.url.host,
                     no_verify_ssl |-> ~entry.verify_ssl]))

\* PythonPackage::new
PythonPackageNew(name, specifier, source, hashes) ==
    [name |-> name, specifier |-> specifier, source |-> source,
     hashes |-> hashes]

\* char::len_utf8 over the characters the documents use: the accented
\* letter takes two bytes, the others one.
Utf8Len(c) == IF c = "é" THEN 2 ELSE 1

RECURSIVE ByteLen(_)
\* str::len: the length of a string in bytes.
ByteLen(chars) ==
    IF Len(chars) = 0 THEN 0
    ELSE Utf8Len(Head(chars)) + ByteLen(Tail(chars))

\* str::is_char_boundary(2): some prefix of the characters takes exactly
\* two bytes.
Boundary2(version) ==
    {n \in 0..Len(version) : ByteLen(SubSeq(version, 1, n)) = 2}

\* entry.version[2..]: the string without its first two bytes; slicing past
\* the end of the string, or at a byte inside a character, panics.
VersionTail(version) ==
    IF ByteLen(version) < 2 \/ Boundary2(version) = {}
    THEN [kind |-> "Panic"]
    ELSE LET n == CHOOSE n \in Boundary2(version) : TRUE IN
         [kind |-> "Ok", value |-> SubSeq(version, n + 1, Len(version))]

RECURSIVE ConvertPythonPackages(_, _, _, _)
\* convert_python_packages: one (name, PythonPackage) per entry, in the
\* order `order` of the map's iteration; a source name that the Sources
\* table lacks gives no source.
ConvertPythonPackages(entries, sources, order, acc) ==
    IF Len(order) = 0 THEN [kind |-> "Ok", packages |-> acc]
    ELSE LET name == Head(order)
             entry == entries[name]
             tail == VersionTail(entry.version) IN
         IF tail.kind # "Ok" THEN tail
         ELSE LET spec == [kind |-> "Version", version |-> tail.value]
                  source == IF IsSome(entry.source)
                               /\ Unwrap(entry.source) \in DOMAIN sources
                            THEN Some(sources[Unwrap(entry.source)])
                            ELSE None
                  package == PythonPackageNew(name, spec, source,
                                              entry.hashes) IN
              ConvertPythonPackages(entries, sources, Tail(order),
                  Append(acc, [name |-> name, package |-> package]))

\* into_lock, the conversions: convert_sources, then
\* convert_python_packages for `default` and for `develop`.
IntoLockConvert ==
    /\ pfPc = "convert"
    /\ \E o1 \in Orders(DOMAIN pipfile.default),
          o2 \in Orders(DOMAIN pipfile.develop) :
       LET sources == ConvertSources(pipfile.meta.sources, << >>)
           default == ConvertPythonPackages(pipfile.default, sources,
                                            o1, << >>)
           develop == ConvertPythonPackages(pipfile.develop, sources,
                                            o2, << >>) IN
       IF default.kind # "Ok" \/ develop.kind # "Ok"
       THEN /\ pfPc' = "panicked"
            /\ pfLock' = [kind |-> "Panic"]
            /\ UNCHANGED <<pfDefault, pfDevelop>>
       ELSE /\ pfPc' = "sections"
            /\ pfDefault' = default.packages
            /\ pfDevelop' = develop.packages
            /\ UNCHANGED pfLock
    /\ UNCHANGED <<pipfile, depsVars>>
    /\ UNCHANGED <<syncVars, parseVars, hashVars, entryVars, findVars>>

\* A package loop that links the section to its package with an attached
\* marker of zero conditions.
AddNodeAndEdgeGuarded(d, key, python, dependent) ==
    LET a == AddDependency(d.table, key, python, d.cells + 1)
        e == AddDependence(a.table, dependent, key, Some(<< >>)) IN
    [kind |-> e.kind,
     table |-> IF e.kind = "Ok" THEN e.table ELSE a.table,
     detached |-> d.detached \cup
                    (IF IsSome(a.old) THEN {Unwrap(a.old)} ELSE {}),
     cells |-> d.cells + 1]

\* A call of add_dependency followed by a call of add_dependence(..).unwrap()
\* on the state `d` of the table: its table, detached nodes and cells.
AddNodeAndEdge(d, key, python, dependent) ==
    LET a == AddDependency(d.table, key, python, d.cells + 1)
        e == AddDependence(a.table, dependent, key, None) IN
    [kind |-> e.kind,
     table |-> IF e.kind = "Ok" THEN e.table ELSE a.table,
     detached |-> d.detached \cup
                    (IF IsSome(a.old) THEN {Unwrap(a.old)} ELSE {}),
     cells |-> d.cells + 1]

\* into_lock, the sections and their aliases: "", "[dev]", "[default]" with
\* its edge to "", "[develop]" with its edge to "[dev]".
IntoLockSections ==
    /\ pfPc = "sections"
    /\ LET t1 == AddDependency(DependenciesNew, "", None, 1).table
           t2 == AddDependency(t1, "[dev]", None, 2).table
           t3 == AddDependence(
                    AddDependency(t2, "[default]", None, 3).table,
                    "[default]", "", None)
           t4 == AddDependence(
                    AddDependency(t3.table, "[develop]", None, 4).table,
                    "[develop]", "[dev]", None) IN
       /\ depsTable' = t4.table
       /\ cells' = 4
    /\ pfPc' = "default"
    /\ UNCHANGED <<detached, lastCall>>
    /\ UNCHANGED <<pipfile, pfDefault, pfDevelop, pfLock>>
    /\ UNCHANGED <<syncVars, parseVars, hashVars, entryVars, findVars>>

\* One turn of a package loop of into_lock, for the section node `section`:
\* add_dependency(&s, Some(p)), then add_dependence(section, &s, None)
\* unwrapped.
IntoLockTurn(section, item) ==
    LET d == AddNodeAndEdge(
                [table |-> depsTable, detached |-> detached, cells |-> cells],
                item.name, Some(item.package), section) IN
    /\ depsTable' = d.table
    /\ detached' = d.detached
    /\ cells' = d.cells
    /\ IF d.kind = "Ok" THEN UNCHANGED <<pfPc, pfLock>>
       ELSE pfPc' = "panicked" /\ pfLock' = [kind |-> "Panic"]

\* into_lock, `for (s, p) in default { ... }`.
IntoLockDefault ==
    /\ pfPc = "default"
    /\ IF Len(pfDefault) = 0
       THEN /\ pfPc' = "develop"
            /\ UNCHANGED <<depsTable, detached, cells, pfDefault, pfLock>>
       ELSE /\ IntoLockTurn("", Head(pfDefault))
            /\ pfDefault' = Tail(pfDefault)
    /\ UNCHANGED <<lastCall, pipfile, pfDevelop>>
    /\ UNCHANGED <<syncVars, parseVars, hashVars, entryVars, findVars>>

\* into_lock, `for (s, p) in develop { ... }`.
IntoLockDevelop ==
    /\ pfPc = "develop"
    /\ IF Len(pfDevelop) = 0
       THEN /\ pfPc' = "return"
            /\ UNCHANGED <<depsTable, detached, cells, pfDevelop, pfLock>>
       ELSE /\ IntoLockTurn("[dev]", Head(pfDevelop))
            /\ pfDevelop' = Tail(pfDevelop)
    /\ UNCHANGED <<lastCall, pipfile, pfDefault>>
    /\ UNCHANGED <<syncVars, parseVars, hashVars, entryVars, findVars>>

\* into_lock, Lock::from(sources, dependencies).
IntoLockReturn ==
    /\ pfPc = "return"
    /\ pfPc' = "done"
    /\ pfLock' = [kind |-> "Ok",
                  lock |-> [sources |-> ConvertSources(pipfile.meta.sources,
                                                       << >>),
                            dependencies |-> depsTable]]
    /\ UNCHANGED <<depsVars, pipfile, pfDefault, pfDevelop>>
    /\ UNCHANGED <<syncVars, parseVars, hashVars, entryVars, findVars>>

InitPipfile ==
    /\ pipfile \in [default : PipSections, develop : PipSections,
                    meta : {[sources |-> PipSourceEntries]}]
    /\ pfPc = "convert"
    /\ pfDefault = << >>
    /\ pfDevelop = << >>
    /\ pfLock = Running
    /\ depsTable = DependenciesNew
    /\ detached = {}
    /\ cells = 0
    /\ lastCall = [op |-> "new"]
    /\ SyncIdle /\ ParseIdle /\ HashesIdle /\ EntryIdle
    /\ FindIdle

NextPipfile ==
    \/ IntoLockConvert
    \/ IntoLockSections
    \/ IntoLockDefault
    \/ IntoLockDevelop
    \/ IntoLockReturn

SpecPipfile == InitPipfile /\ [][NextPipfile]_vars

----------------------------------------------------------------------------
(* Project::find (src/rust/projects.rs).  The filesystem is what the walk  *)
(* can see: the entries along the path handed to find and, in each of      *)
(* them, the entry named __pypackages__.                                   *)

\* The names of the path components.
PathNames == {"a", "b"}

\* Absolute paths: the root is the empty sequence of components.
Paths == UNION {[1..n -> PathNames] : n \in 0..MaxDepth}

\* What a path names: a directory, a regular file, or nothing.
EntryKinds == {"dir", "file", "missing"}

\* The filesystems: `path` is the path handed to find, `kind` is what it
\* names, and marks[n] is what "__pypackages__" names in the ancestor with
\* n components. Every proper ancestor of an entry that exists is a
\* directory, the root is one, and only a directory has entries.
Trees ==
    {t \in [path : Paths, kind : EntryKinds,
            marks : UNION {[0..n -> EntryKinds] : n \in 0..MaxDepth}] :
        /\ DOMAIN t.marks = 0..Len(t.path)
        /\ Len(t.path) = 0 => t.kind = "dir"
        /\ t.kind # "dir" => t.marks[Len(t.path)] = "missing"}

\* Path::is_dir on a prefix of the tree's path.
IsDir(t, path) ==
    \/ Len(path) < Len(t.path)
    \/ t.kind = "dir"

\* p.join("__pypackages__").is_dir()
HasPypackages(t, path) == IsDir(t, path) /\ t.marks[Len(path)] = "dir"

\* PathBuf::pop: false (and no change) at the root, else the parent.
Pop(path) ==
    IF Len(path) = 0 THEN [popped |-> FALSE, path |-> path]
    ELSE [popped |-> TRUE, path |-> SubSeq(path, 1, Len(path) - 1)]

\* find, `let mut p = canonicalize(directory)?`: an io::Error for a path
\* that does not exist.
FindCanonicalize ==
    /\ findPc = "canonicalize"
    /\ IF tree.kind = "missing"
       THEN /\ findPc' = "done"
            /\ found' = [kind |-> "SystemEnvironmentError"]
            /\ UNCHANGED findP
       ELSE /\ findPc' = "is_dir"
            /\ findP' = tree.path
            /\ UNCHANGED found
    /\ UNCHANGED <<tree, turns>>
    /\ UNCHANGED <<syncVars, parseVars, hashVars, entryVars, depsVars,
                   pipfileVars>>

\* find, top of the loop: `if !p.is_dir() { continue; }`.
FindIsDir ==
    /\ findPc = "is_dir"
    /\ findPc' = IF IsDir(tree, findP) THEN "join" ELSE "continue"
    /\ turns' = IF turns < MaxTurns THEN turns + 1 ELSE turns
    /\ UNCHANGED <<tree, findP, found>>
    /\ UNCHANGED <<syncVars, parseVars, hashVars, entryVars, depsVars,
                   pipfileVars>>

\* find, `continue`: back to the top of the loop with p as it is.
FindContinue ==
    /\ findPc = "continue"
    /\ findPc' = "is_dir"
    /\ UNCHANGED <<tree, findP, turns, found>>
    /\ UNCHANGED <<syncVars, parseVars, hashVars, entryVars, depsVars,
                   pipfileVars>>

\* find, `if p.join("__pypackages__").is_dir() { return Ok(..) }`.
FindJoin ==
    /\ findPc = "join"
    /\ IF HasPypackages(tree, findP)
       THEN /\ findPc' = "done"
            /\ found' = [kind |-> "Ok", root |-> findP]
       ELSE /\ findPc' = "pop"
            /\ UNCHANGED found
    /\ UNCHANGED <<tree, findP, turns>>
    /\ UNCHANGED <<syncVars, parseVars, hashVars, entryVars, depsVars,
                   pipfileVars>>

\* find, `if !p.pop() { break; }` and the Err(..) after the loop.
FindPop ==
    /\ findPc = "pop"
    /\ LET r == Pop(findP) IN
       /\ findP' = r.path
       /\ IF r.popped
          THEN /\ findPc' = "is_dir"
               /\ UNCHANGED found
          ELSE /\ findPc' = "done"
               /\ found' = [kind |-> "ProjectNotFoundError",
                            directory |-> tree.path]
    /\ UNCHANGED <<tree, turns>>
    /\ UNCHANGED <<syncVars, parseVars, hashVars, entryVars, depsVars,
                   pipfileVars>>

InitFind ==
    /\ tree \in Trees
    /\ findPc = "canonicalize"
    /\ findP = << >>
    /\ turns = 0
    /\ found = Running
    /\ SyncIdle /\ ParseIdle /\ HashesIdle /\ EntryIdle /\ DepsIdle
    /\ PipfileIdle

NextFind ==
    \/ FindCanonicalize
    \/ FindIsDir
    \/ FindContinue
    \/ FindJoin
    \/ FindPop

SpecFind == InitFind /\ [][NextFind]_vars

\* The thread that runs find is scheduled as long as it can take a step.
SpecFindFair == SpecFind /\ WF_vars(NextFind)

----------------------------------------------------------------------------

(* Definitions shared by the claims.                                       *)

\* The child keys a body of the document lists.
DocChildren(k) == DOMAIN doc.dependencies[k].dependencies

\* A document that lists a child key that is no key of `dependencies`.
Dangling ==
    \E k \in DOMAIN doc.dependencies :
        \E c \in DocChildren(k) : c \notin DOMAIN doc.dependencies

\* The targets of a node's edges.
EdgeTargets(dep) == {dep.dependencies[i].child : i \in 1..Len(dep.dependencies)}

\* The requested root keys.
RootKeys ==
    (IF reqDefault THEN {DefaultKey} ELSE {})
    \cup {ExtraKey(reqExtras[i]) : i \in 1..Len(reqExtras)}

\* The meaning of an edge: no marker, or a marker one of whose conditions
\* holds in the interpreter's environment.
EdgeOpen(edge) ==
    \/ ~IsSome(edge.marker)
    \/ \E i \in 1..Len(Unwrap(edge.marker)) : env[Unwrap(edge.marker)[i]] = "True"

RECURSIVE ReachableFrom(_)
\* The nodes reachable from a set of nodes along open edges.
ReachableFrom(S) ==
    LET step == S \cup UNION {EdgeTargets(lock[k]) : k \in S}
        open == S \cup {c \in step :
                    \E k \in S : \E i \in 1..Len(lock[k].dependencies) :
                        /\ lock[k].dependencies[i].child = c
                        /\ EdgeOpen(lock[k].dependencies[i])} IN
    IF open = S THEN S ELSE ReachableFrom(open)

\* The nodes with an edge to k.
Parents(k) == {j \in DOMAIN lock : k \in EdgeTargets(lock[j])}

\* required_packages has returned Ok(deps).
Resolved == pc \in {"env_root", "prepare", "install"}

----------------------------------------------------------------------------
(* C1..C5.                                                                 *)

\* C1: in every Lock the parser returns, every edge of every node targets a
\* key of the Lock's node table and every child entry of the document has
\* its edge (none is dropped); a document that lists a child key missing
\* from `dependencies` is never accepted: the parser returns an error.
C1_EdgeIntegrity ==
    /\ parsed.kind = "Ok" =>
          /\ ~Dangling
          /\ \A k \in DOMAIN parsed.lock.dependencies :
                LET dep == parsed.lock.dependencies[k] IN
                /\ EdgeTargets(dep) \subseteq DOMAIN parsed.lock.dependencies
                /\ EdgeTargets(dep) = DocChildren(k)
                /\ Len(dep.dependencies) = Cardinality(DocChildren(k))
    /\ (Dangling /\ DOMAIN links = {} /\ DOMAIN dents = {}) =>
          parsed.kind = "Err"

\* C1's case: an accepted document in which two nodes have edges, one of
\* them to a node listed after it.
C1_Witness ==
    /\ parsed.kind = "Ok"
    /\ \E k, j \in DOMAIN parsed.lock.dependencies :
          /\ k # j
          /\ j \in EdgeTargets(parsed.lock.dependencies[k])
          /\ k \in EdgeTargets(parsed.lock.dependencies[j])

\* C2: collect_required terminates on every finite graph, cycles of section
\* nodes included: the depth of the recursion never exceeds the number of
\* nodes, and the process never dies of stack exhaustion.
C2_RecursionBounded ==
    /\ pc # "aborted"
    /\ Len(stack) <= Cardinality(DOMAIN lock)

\* C3: when required_packages returns Ok, the resolved set is exactly the
\* (key, package) pairs of the package-carrying nodes reachable from the
\* requested roots along edges that have no marker or whose marker holds.
C3_ExactlyReachable ==
    Resolved =>
        LET want == {k \in ReachableFrom(RootKeys) : IsSome(lock[k].python)} IN
        into = [k \in want |-> Unwrap(lock[k].python)]

\* C3's case: a resolution that left a package out behind a false marker
\* and took another one in through a true one.
C3_Witness ==
    /\ Resolved
    /\ Len(evalLog) >= 2
    /\ \E i, j \in 1..Len(evalLog) :
          evalLog[i].stdout = "True" /\ evalLog[j].stdout = "False"
    /\ DOMAIN into # {}
    /\ DOMAIN into # PackageKeys

\* C4: a package-carrying node with two or more parents is inserted into
\* the resolved set at most once and its edges are expanded at most once,
\* however often it is reached; once it has been reached it is in the
\* resolved set, inserted once and expanded once.
C4_SharedChildOnce ==
    \A k \in DOMAIN lock :
        (IsSome(lock[k].python) /\ Cardinality(Parents(k)) >= 2) =>
            /\ inserted[k] <= 1
            /\ expanded[k] <= 1
            /\ (k \in DOMAIN into) <=> (inserted[k] = 1)
            /\ (Resolved /\ entered[k] >= 1) =>
                  /\ inserted[k] = 1 /\ expanded[k] = 1
                  /\ into[k] = Unwrap(lock[k].python)

\* C4's case: a package with two parents that was reached twice, from two
\* requested roots.
C4_Witness ==
    /\ Resolved
    /\ \E k \in DOMAIN lock :
          /\ IsSome(lock[k].python)
          /\ Cardinality(Parents(k)) >= 2
          /\ entered[k] >= 2
          /\ Len(lock[k].dependencies) >= 1
    /\ Cardinality(RootKeys) >= 2

\* C5: a turn of the edge loop on an edge with an attached marker of zero
\* conditions starts no evaluator and enters no node; a turn on an edge
\* with no marker starts no evaluator and calls collect_required on the
\* child.
C5_EmptyAndNullMarkers ==
    [][(pc = "collect" /\ Top.i >= 1 /\ Top.i <= Len(Current.dependencies)) =>
         LET edge == Current.dependencies[Top.i] IN
         /\ (edge.marker = Some(<<>>)) =>
               /\ evalLog' = evalLog
               /\ entered' = entered
               /\ stack' = Advanced
               /\ pc' = "collect"
         /\ (edge.marker = None) =>
               /\ evalLog' = evalLog
               /\ entered' = Bump(entered, edge.child)]_vars

\* C5's case: the traversal has just passed an edge with an empty marker,
\* whose child it never entered, without any evaluator run.
C5_Witness ==
    /\ pc = "collect" /\ Top.i >= 2
    /\ Current.dependencies[Top.i - 1].marker = Some(<<>>)
    /\ entered[Current.dependencies[Top.i - 1].child] = 0
    /\ evalLog = << >>

----------------------------------------------------------------------------
(* C6..C10.                                                                *)

\* The positions in the extras list of the names that have no "[name]" node.
MissingExtras ==
    {i \in 1..Len(reqExtras) : ExtraKey(reqExtras[i]) \notin DOMAIN lock}

\* The first of them.
FirstMissing == CHOOSE i \in MissingExtras : \A j \in MissingExtras : i <= j

\* The keys of the installer invocations attempted so far.
Attempted == {installLog[i].key : i \in 1..Len(installLog)}

\* C6: sync with include_default = true on a Lock without a "" node fails
\* with DefaultSectionNotFound whatever the extras, and attempts no
\* installer invocation.
C6_DefaultSectionNotFound ==
    (reqDefault /\ DefaultKey \notin DOMAIN lock) =>
        /\ installLog = << >>
        /\ pc \in {"roots", "done"}
        /\ (pc = "roots") => (rootIdx = 0 /\ result = Running)
        /\ (pc = "done") => (result = [kind |-> "DefaultSectionNotFound"])

\* C6's case: the default section is missing while a requested extra
\* exists, and sync has returned.
C6_Witness ==
    /\ reqDefault /\ DefaultKey \notin DOMAIN lock
    /\ pc = "done"
    /\ result.kind = "DefaultSectionNotFound"
    /\ Len(reqExtras) = 2
    /\ ExtraKey(reqExtras[1]) \in DOMAIN lock

\* C7 as stated: whenever the extras list contains a name n without a
\* "[n]" node, sync fails with ExtraSectionNotFound(n) and attempts no
\* installer invocation.
C7_Original ==
    \A i \in MissingExtras :
        (pc = "done") =>
            /\ result.kind = "ExtraSectionNotFound"
            /\ result.name = reqExtras[i]
            /\ installLog = << >>

\* C7 as amended: with a missing extra in the list, sync never succeeds and
\* never attempts an installer invocation; it fails with
\* ExtraSectionNotFound of the first missing name in list order, unless it
\* failed before reaching that name, with DefaultSectionNotFound or with
\* the error of a marker evaluation of an earlier root.
C7_FirstMissingExtra ==
    (MissingExtras # {}) =>
        /\ installLog = << >> /\ created = {}
        /\ ~Resolved
        /\ result.kind # "Ok"
        /\ (pc = "done") =>
              \/ result = [kind |-> "ExtraSectionNotFound",
                           name |-> reqExtras[FirstMissing]]
              \/ /\ result.kind = "DefaultSectionNotFound"
                 /\ reqDefault /\ DefaultKey \notin DOMAIN lock
              \/ /\ result.kind = "InvalidMarkerError"
                 /\ rootIdx <= FirstMissing
                 /\ evalLog[Len(evalLog)].stdout \notin {"True", "False"}
              \/ /\ result.kind \in {"InterpreterError", "SystemError"}
                 /\ rootIdx <= FirstMissing
                 /\ faults >= 1

\* C7's case: the default section and the first extra exist and resolved a
\* package, the second extra is missing, and sync has returned.
C7_Witness ==
    /\ pc = "done"
    /\ reqDefault /\ DefaultKey \in DOMAIN lock
    /\ Len(reqExtras) = 2
    /\ MissingExtras = {2}
    /\ result = [kind |-> "ExtraSectionNotFound", name |-> reqExtras[2]]
    /\ entered[ExtraKey(reqExtras[1])] >= 1
    /\ DOMAIN into # {}

\* C8 as stated: when a section-resolution error is returned, the call has
\* started no evaluator and no installer and created no requirement file.
C8_Original ==
    (pc = "done"
        /\ result.kind \in {"DefaultSectionNotFound", "ExtraSectionNotFound"}) =>
        /\ evalLog = << >>
        /\ installLog = << >>
        /\ created = {}

\* C8 as amended: when a section-resolution error is returned, the call has
\* started no installer and created no requirement file;
\* DefaultSectionNotFound also precedes every evaluator run, while
\* ExtraSectionNotFound may follow the evaluator runs made for the roots
\* resolved before the missing extra, and follows none when the missing
\* extra is the first root.
C8_SectionErrorBeforeInstall ==
    (result.kind \in {"DefaultSectionNotFound", "ExtraSectionNotFound"}) =>
        /\ installLog = << >>
        /\ created = {}
        /\ DOMAIN tempfiles = {}
        /\ (result.kind = "DefaultSectionNotFound") =>
              (evalLog = << >> /\ DOMAIN into = {})
        /\ (result.kind = "ExtraSectionNotFound" /\ evalLog # << >>) =>
              (reqDefault \/ rootIdx >= 3)

\* C8's case: an ExtraSectionNotFound returned after the default section
\* was resolved with the help of the evaluator.
C8_Witness ==
    /\ pc = "done"
    /\ result.kind = "ExtraSectionNotFound"
    /\ evalLog # << >>
    /\ DOMAIN into # {}

\* C9: an evaluator output that is neither "True" nor "False" is the last
\* evaluation of the run; sync returns InvalidMarkerError with that stdout
\* and stderr, and attempts no installer invocation.
C9_InvalidMarkerAborts ==
    \A i \in 1..Len(evalLog) :
        (evalLog[i].stdout \notin {"True", "False"}) =>
            /\ i = Len(evalLog)
            /\ pc = "done"
            /\ result = [kind |-> "InvalidMarkerError",
                         stdout |-> evalLog[i].stdout,
                         stderr |-> evalLog[i].stderr]
            /\ installLog = << >>
            /\ created = {}

\* C9's case: an invalid marker met after an edge was evaluated
\* successfully, with a package already resolved.
C9_Witness ==
    /\ pc = "done"
    /\ result.kind = "InvalidMarkerError"
    /\ result.stderr # ""
    /\ Len(evalLog) >= 2
    /\ DOMAIN into # {}

\* C10: once the installer loop of a run has begun, every package of the
\* resolved set has had the turn of its installer invocation begun when
\* sync returns: no failing invocation, one that could not be built or
\* started included, keeps a remaining package from being attempted, and
\* a failure result comes only after the last planned invocation.
C10_AllAttempted ==
    (pc = "done" /\ begun # {}) => begun = DOMAIN into

\* The installer invocations of the run that exited unsuccessfully, as
\* (key, exit code) pairs in the order of the invocations.
RECURSIVE FailedOf(_)
FailedOf(log) ==
    IF Len(log) = 0 THEN <<>>
    ELSE (IF log[1].status = Some(0) THEN <<>>
          ELSE << <<log[1].key, log[1].status>> >>) \o FailedOf(Tail(log))

\* C11: when sync has returned, every installer invocation of the run that
\* exited unsuccessfully is, with its key and exit code and exactly once,
\* an entry of the InstallCommandError that sync returned, and sync
\* returned success only if no invocation failed.
C11_FailuresReported ==
    (pc = "done") =>
        /\ (FailedOf(installLog) # <<>>) =>
              /\ result.kind = "InstallCommandError"
              /\ result.errors = FailedOf(installLog)
        /\ (result.kind = "Ok") => FailedOf(installLog) = <<>>

\* The elements of a sequence.
Range(seq) == {seq[i] : i \in 1..Len(seq)}

\* The number of hashes of a package: none when `hashes` is absent.
HashCount(package) ==
    IF IsSome(package.hashes) THEN Cardinality(Unwrap(package.hashes)) ELSE 0

\* The number of --hash tokens rendered for a package.
HashTokens(package) ==
    IF IsSome(package.hashes)
    THEN LET args == HashArgs(CHOOSE order \in IterOrders(package.hashes) :
                                 TRUE) IN
         Cardinality({i \in DOMAIN args : args[i] = "--hash"})
    ELSE 0

\* C12: every installer invocation carries --require-hashes if and only if
\* its package has at least one hash, and the requirement line has one
\* --hash token per hash; a package whose hashes are absent or are an empty
\* list never gets the flag.
C12_RequireHashesIffHash ==
    \A i \in 1..Len(installLog) :
        LET e == installLog[i]
            package == into[e.key] IN
        /\ ("--require-hashes" \in Range(e.args)) <=> (HashCount(package) >= 1)
        /\ HashTokens(package) = HashCount(package)

\* The position of the first occurrence of x in a sequence, 0 when absent.
IndexOf(seq, x) ==
    IF x \in Range(seq)
    THEN CHOOSE i \in 1..Len(seq) :
            seq[i] = x /\ \A j \in 1..(i - 1) : seq[j] # x
    ELSE 0

\* The value of an option of a command line: the argument after it.
ArgAfter(args, option) == args[IndexOf(args, option) + 1]

\* The requirement file handed to each installer invocation, in the order
\* of the invocations.
RequirementFiles ==
    [i \in 1..Len(installLog) |->
        ArgAfter(installLog[i].args, "--requirement")]

\* C13: the installer invocations of a run correspond one to one to the
\* resolved (key, package) pairs: every invocation is for a resolved
\* package, no package is invoked twice, every invocation is handed a
\* requirement file of its own whose content is exactly the requirement
\* line of its package, every invocation carries --no-deps, and when the
\* installer loop has run to its end every resolved package was invoked.
C13_OneInvocationPerPackage ==
    /\ LET file == RequirementFiles IN
       \A i \in 1..Len(installLog) :
          LET e == installLog[i] IN
          /\ e.key \in DOMAIN into
          /\ \A j \in 1..Len(installLog) :
                (j # i) =>
                  /\ installLog[j].key # e.key
                  /\ file[j] # file[i]
          /\ "--requirement" \in Range(e.args)
          /\ file[i] \in created
          /\ \E order \in IterOrders(into[e.key].hashes) :
                e.read = Some(ToRequirementTxt(into[e.key], order).text
                              \o "\n")
          /\ "--no-deps" \in Range(e.args)
    /\ (result.kind \in {"Ok", "InstallCommandError"}) =>
          /\ {installLog[i].key : i \in 1..Len(installLog)} = DOMAIN into
          /\ Len(installLog) = Cardinality(DOMAIN into)

\* C13's case: three packages were resolved and sync returned after three
\* installer invocations, all successful.
C13_Witness ==
    /\ pc = "done"
    /\ result.kind = "Ok"
    /\ Cardinality(DOMAIN into) = 3
    /\ Len(installLog) = 3

\* The installer invocations of `files`, the requirement file of every
\* invocation, that were handed the requirement file `name`.
UsesOf(files, name) == {i \in DOMAIN files : files[i] = name}

\* C14 as stated: when sync has returned, every requirement file the run
\* created was used by exactly one installer invocation, and none of them
\* exists any more.
C14_Original ==
    (pc = "done") =>
        /\ LET files == RequirementFiles IN
           \A name \in created : Cardinality(UsesOf(files, name)) = 1
        /\ DOMAIN tempfiles = {}

\* C14 as amended: a requirement file is used by at most one installer
\* invocation, exists while that invocation runs and is deleted once it has
\* returned, whatever its exit status; when the installer loop has run to
\* its end every file was used exactly once; and on every exit path,
\* early error returns included, no requirement file of the run exists
\* when sync returns.
C14_TempFilesReleased ==
    /\ DOMAIN tempfiles \subseteq created
    /\ LET files == RequirementFiles IN
       \A name \in created :
          LET uses == UsesOf(files, name) IN
          /\ Cardinality(uses) <= 1
          /\ (uses # {}) => name \notin DOMAIN tempfiles
          /\ (result.kind \in {"Ok", "InstallCommandError"}) =>
                Cardinality(uses) = 1
    /\ \A i \in 1..Len(installLog) : IsSome(installLog[i].read)
    /\ (pc = "done") => DOMAIN tempfiles = {}

\* C14's case: two requirement files were created, the invocation that
\* used the first one failed, the second installer command could not be
\* started, and no file is left when sync returns.
C14_Witness ==
    /\ pc = "done"
    /\ result.kind = "SystemError"
    /\ Cardinality(created) = 2
    /\ Len(installLog) = 1
    /\ installLog[1].status # Some(0)
    /\ DOMAIN tempfiles = {}

\* A document with a package body that names a source missing from
\* `sources`.
BadSource ==
    \E k \in DOMAIN doc.dependencies :
        LET python == doc.dependencies[k].python IN
        /\ IsSome(python)
        /\ IsSome(Unwrap(python).source)
        /\ Unwrap(Unwrap(python).source) \notin doc.sources

\* C15: the parser returns a Lock only after both build phases are over,
\* with every entry of the document a node and every child entry an edge;
\* a failure of either phase yields an error and no Lock, and the
\* half-built table is dropped.
C15_AllOrNothing ==
    /\ parsed.kind \in {"Running", "Ok", "Err"}
    /\ (parsed.kind = "Ok") =>
          /\ DOMAIN dents = {} /\ DOMAIN links = {}
          /\ ~BadSource /\ ~Dangling
          /\ DOMAIN parsed.lock.dependencies = DOMAIN doc.dependencies
          /\ \A k \in DOMAIN doc.dependencies :
                /\ Len(parsed.lock.dependencies[k].dependencies)
                      = Cardinality(DocChildren(k))
                /\ EdgeTargets(parsed.lock.dependencies[k]) = DocChildren(k)
    /\ (parsed.kind = "Err") =>
          /\ "lock" \notin DOMAIN parsed
          /\ DOMAIN deps = {} /\ DOMAIN links = {}
    /\ ((BadSource \/ Dangling) /\ DOMAIN dents = {} /\ DOMAIN links = {})
          => parsed.kind = "Err"

\* C15's case: a document of three bodies, all of which can be
\* materialised, whose linking fails: the parser returned an error.
C15_Witness ==
    /\ parsed.kind = "Err"
    /\ Cardinality(DOMAIN doc.dependencies) = 3
    /\ ~BadSource
    /\ Dangling

\* C16: in every Lock the parser returns, every edge holds the very cell
\* the node table holds under the key of the edge's target, and different
\* keys have different cells: all edges to one key share one node.
C16_SharedNode ==
    (parsed.kind = "Ok") =>
        LET table == parsed.lock.dependencies IN
        /\ \A k, j \in DOMAIN table : (k # j) => table[k].cell # table[j].cell
        /\ \A k \in DOMAIN table :
              \A i \in 1..Len(table[k].dependencies) :
                 LET edge == table[k].dependencies[i] IN
                 /\ edge.child \in DOMAIN table
                 /\ edge.cell = table[edge.child].cell

\* C16's case: an accepted document in which a package is the child of two
\* different parents.
C16_Witness ==
    /\ parsed.kind = "Ok"
    /\ \E c, k, j \in DOMAIN parsed.lock.dependencies :
          /\ k # j
          /\ IsSome(parsed.lock.dependencies[c].python)
          /\ c \in EdgeTargets(parsed.lock.dependencies[k])
          /\ c \in EdgeTargets(parsed.lock.dependencies[j])

\* C17: every string Hash::parse accepts is reproduced exactly by showing
\* the parsed Hash, and a string is rejected when it contains no ':'.
C17_HashRoundTrip ==
    /\ \A i \in 1..Len(hashLog) : hashLog[i].shown = hashLog[i].input
    /\ \A i \in 1..Len(hashLog) : ":" \in Range(hashLog[i].input)
    /\ (hashesResult.kind = "Running" /\ Len(hashLog) < Len(hashArray)
          /\ ":" \notin Range(hashArray[Len(hashLog) + 1]))
          => ~IsSome(HashParse(hashArray[Len(hashLog) + 1]))

\* The (algorithm, digest) entries of a hash array.
PairsOf(array) == {Unwrap(HashParse(array[i])) : i \in 1..Len(array)}

\* C18: the Hashes set returned for a hash array holds exactly the
\* (algorithm, digest) entries of the array, each once, whatever their
\* order and however often they are repeated: its size is the number of
\* distinct entries.
C18_HashesDedup ==
    (hashesResult.kind = "Ok") =>
        /\ hashesResult.hashes = PairsOf(hashArray)
        /\ Cardinality(hashesResult.hashes) = Cardinality(PairsOf(hashArray))
        /\ \A i \in 1..Len(hashArray) :
              HashNew(hashLog[i].hash.name, hashLog[i].hash.value)
                 \in hashesResult.hashes
        /\ Cardinality(hashesResult.hashes) <= Len(hashArray)

\* C18's case: an array of two strings that are the same entry, parsed to
\* a set of one hash.
C18_Witness ==
    /\ hashesResult.kind = "Ok"
    /\ Len(hashArray) = 2
    /\ hashArray[1] = hashArray[2]
    /\ Cardinality(hashesResult.hashes) = 1

\* The fields among version, url, path and vcs that a body sets.
FieldsSet(e) ==
    {f \in {"Version", "Url", "Path", "Vcs"} :
        \/ f = "Version" /\ IsSome(e.version)
        \/ f = "Url" /\ IsSome(e.url)
        \/ f = "Path" /\ IsSome(e.path)
        \/ f = "Vcs" /\ IsSome(e.vcs)}

\* The body sets version and names a source that is no key of Sources.
VersionSourceUnknown(e) ==
    /\ IsSome(e.version) /\ IsSome(e.source)
    /\ Unwrap(e.source) \notin DOMAIN EntrySources

\* The body names a source that is no key of Sources.
SourceUnknown(e) ==
    IsSome(e.source) /\ Unwrap(e.source) \notin DOMAIN EntrySources

\* make_python_package has returned.
Made == pyPackage.kind \in {"Ok", "Err"}

\* C19 as stated: a body is accepted if and only if it sets exactly one of
\* version, url, path, vcs (and rev with vcs), the specifier is the variant
\* of that field, a body that sets more than one is rejected with
\* "redundant package fields", a body that sets only vcs, without rev, is
\* rejected with missing field rev, and a body that sets none is rejected.
C19_Original ==
    Made =>
        LET n == Cardinality(FieldsSet(pyEntry)) IN
        /\ (pyPackage.kind = "Ok") <=>
              (n = 1 /\ (IsSome(pyEntry.vcs) => IsSome(pyEntry.rev)))
        /\ (pyPackage.kind = "Ok") =>
              FieldsSet(pyEntry) = {pyPackage.value.specifier.kind}
        /\ (n > 1) => pyPackage = Custom("redundant package fields")
        /\ (n = 1 /\ IsSome(pyEntry.vcs) /\ ~IsSome(pyEntry.rev)) =>
              pyPackage = MissingField("rev")
        /\ (n = 0) => pyPackage.kind = "Err"

\* C19 as amended: a body is accepted if and only if it sets exactly one of
\* the four fields, sets rev if that field is vcs, and, if that field is
\* version, names no source or a source of the Sources table; the
\* specifier is the variant of that field.  A body that sets version and
\* names an unknown source is rejected with "unresolvable source",
\* whatever else it sets; otherwise a body that sets more than one field is
\* rejected with "redundant package fields", a body that sets only vcs,
\* without rev, with missing field rev, and a body that sets none with
\* "missing package fields".
C19_ExactlyOneField ==
    Made =>
        LET n == Cardinality(FieldsSet(pyEntry))
            bad == VersionSourceUnknown(pyEntry) IN
        /\ (pyPackage.kind = "Ok") <=>
              /\ n = 1
              /\ IsSome(pyEntry.vcs) => IsSome(pyEntry.rev)
              /\ ~bad
        /\ (pyPackage.kind = "Ok") =>
              FieldsSet(pyEntry) = {pyPackage.value.specifier.kind}
        /\ bad => pyPackage = Custom("unresolvable source \""
                                     \o Unwrap(pyEntry.source) \o "\"")
        /\ (~bad /\ n > 1) => pyPackage = Custom("redundant package fields")
        /\ (n = 1 /\ IsSome(pyEntry.vcs) /\ ~IsSome(pyEntry.rev)) =>
              pyPackage = MissingField("rev")
        /\ (n = 0) => pyPackage = Custom("missing package fields")

\* C19's case: a body that sets vcs and rev and nothing else of the four
\* was made into a Vcs package and rendered.
C19_Witness ==
    /\ pyPackage.kind = "Ok"
    /\ pyPackage.value.specifier.kind = "Vcs"
    /\ FieldsSet(pyEntry) = {"Vcs"}
    /\ IsSome(requirementTxt)

\* C20: a body that names a source missing from the Sources table is never
\* accepted, whichever of version, url, path and vcs it sets: it is
\* rejected with the unresolvable-source error.
C20_UnknownSourceRejected ==
    (Made /\ SourceUnknown(pyEntry)) =>
        /\ pyPackage.kind = "Err"
        /\ (Cardinality(FieldsSet(pyEntry)) = 1
              /\ (IsSome(pyEntry.vcs) => IsSome(pyEntry.rev))) =>
              pyPackage = Custom("unresolvable source \""
                                 \o Unwrap(pyEntry.source) \o "\"")

----------------------------------------------------------------------------
(* C21..C30.                                                               *)

\* The end-to-end scenario: "" has one edge, to p, with no marker; p has one
\* edge, to q, guarded by ["os_name == 'nt'"]; q has no edge; p is package
\* 1.0 and q is package 2.0 (the scenario's bar and baz); the request is the
\* default section alone.
Scenario ==
    /\ DefaultKey \in DOMAIN lock
    /\ lock[DefaultKey].dependencies = <<[child |-> "p", marker |-> None]>>
    /\ lock["p"].dependencies =
          <<[child |-> "q", marker |-> Some(<<CondNt>>)]>>
    /\ lock["q"].dependencies = << >>
    /\ reqDefault /\ reqExtras = << >>

\* C21: in the scenario, once the evaluator has answered, resolution
\* succeeds; the evaluator was asked once, about "(os_name == 'nt')"; the
\* resolved set is exactly {p} when it answered False and exactly {p, q}
\* when it answered True, each key with the package of its node.
C21_Scenario ==
    Scenario =>
        /\ (pc = "done" /\ Len(evalLog) > 0) =>
              result.kind \notin {"DefaultSectionNotFound",
                                  "ExtraSectionNotFound",
                                  "InvalidMarkerError", "StackOverflow"}
        /\ Resolved =>
              /\ Len(evalLog) = 1
              /\ evalLog[1].expr = "(os_name == 'nt')"
              /\ evalLog[1].stdout \in {"True", "False"}
              /\ (evalLog[1].stdout = "False") =>
                    into = [k \in {"p"} |-> PackageOf(k)]
              /\ (evalLog[1].stdout = "True") =>
                    into = [k \in {"p", "q"} |-> PackageOf(k)]

\* C21's case: the scenario resolved on a Windows interpreter, q taken in
\* through the guarded edge.
C21_Witness ==
    /\ Scenario /\ Resolved
    /\ env[CondNt] = "True"
    /\ Len(evalLog) = 1
    /\ DOMAIN into = {"p", "q"}

\* The number of evaluator runs for the i-th edge of node k.
EvalsOf(k, i) ==
    Cardinality({n \in 1..Len(evalLog) :
                    evalLog[n].node = k /\ evalLog[n].edge = i})

\* C22: in one run no guarded edge is handed to the evaluator more than
\* once, however many roots or paths lead to the node the edge leaves; in
\* particular not in a run whose traversal came to its end.
C22_OneEvaluationPerEdge ==
    Resolved =>
        \A k \in DOMAIN lock :
            \A i \in 1..Len(lock[k].dependencies) : EvalsOf(k, i) <= 1

\* The edges of node k of the returned Lock whose target is c.
EdgesTo(k, c) ==
    LET edges == parsed.lock.dependencies[k].dependencies IN
    {i \in 1..Len(edges) : edges[i].child = c}

\* C23: in every Lock the parser returns, the node table has exactly the
\* keys of the document's `dependencies`, each node under its own key; a
\* node carries a package iff its body has a `python` entry; each node has
\* exactly one edge per child entry of its body and no other edge; the edge
\* has no marker iff the entry's value is null, and otherwise an attached
\* marker that holds the strings of the entry's array in their order (zero
\* strings for an empty array).
C23_LockMirrorsDocument ==
    parsed.kind = "Ok" =>
        LET nodes == parsed.lock.dependencies IN
        /\ DOMAIN nodes = DOMAIN doc.dependencies
        /\ \A k \in DOMAIN nodes :
              LET body == doc.dependencies[k] IN
              /\ nodes[k].key = k
              /\ IsSome(nodes[k].python) <=> IsSome(body.python)
              /\ Len(nodes[k].dependencies) = Cardinality(DocChildren(k))
              /\ \A c \in DocChildren(k) :
                    /\ Cardinality(EdgesTo(k, c)) = 1
                    /\ \A i \in EdgesTo(k, c) :
                          LET marker == nodes[k].dependencies[i].marker
                              value == body.dependencies[c] IN
                          /\ ~IsSome(marker) <=> value = JsonNull
                          /\ value # JsonNull =>
                                Unwrap(marker) = value.items

\* C23's case: an accepted document with a package-less node and a
\* package, and with a null entry, an empty array and an array of two
\* conditions among its child entries.
C23_Witness ==
    /\ parsed.kind = "Ok"
    /\ \E k, j \in DOMAIN doc.dependencies :
          /\ ~IsSome(parsed.lock.dependencies[k].python)
          /\ IsSome(parsed.lock.dependencies[j].python)
    /\ \A m \in {None, Some(<< >>), Some(<<CondNt, CondPy>>)} :
          \E k \in DOMAIN parsed.lock.dependencies :
             \E i \in 1..Len(parsed.lock.dependencies[k].dependencies) :
                parsed.lock.dependencies[k].dependencies[i].marker = m

RECURSIVE CollectRequired(_, _, _)
RECURSIVE CollectEdges(_, _, _)
\* Synchronizer::collect_required as a function of the node, of the result
\* so far (the map `into`, or the error of an evaluation) and of the
\* interpreter e; an edge leads to the node behind its handle.
CollectRequired(current, acc, e) ==
    IF acc.kind # "Ok" \/ AlreadyResolved(acc.into, current) THEN acc
    ELSE CollectEdges(current.dependencies,
            [kind |-> "Ok",
             into |-> IF IsSome(current.python)
                      THEN Insert(acc.into, current.key,
                                  Unwrap(current.python))
                      ELSE acc.into],
            e)

\* collect_required, the loop over the edges that are left.
CollectEdges(edges, acc, e) ==
    IF Len(edges) = 0 \/ acc.kind # "Ok" THEN acc
    ELSE LET edge == Head(edges)
             go == IF ~IsSome(edge.marker)
                   THEN [kind |-> "Ok", value |-> TRUE]
                   ELSE IF MarkerIsEmpty(Unwrap(edge.marker))
                   THEN [kind |-> "Ok", value |-> FALSE]
                   ELSE MarkerResult(PythonOutput(
                            MarkerExpr(Unwrap(edge.marker)), e.env,
                            e.text)) IN
         IF go.kind # "Ok" THEN go
         ELSE CollectEdges(Tail(edges),
                 IF go.value
                 THEN CollectRequired(NodeOfCell(edge.cell), acc, e)
                 ELSE acc,
                 e)

RECURSIVE RequireExtras(_, _, _, _)
\* required_packages, the loop over the extras that are left.
RequireExtras(table, extras, acc, e) ==
    IF Len(extras) = 0 \/ acc.kind # "Ok" THEN acc
    ELSE LET section == ExtraSection(table, Head(extras)) IN
         IF ~IsSome(section)
         THEN [kind |-> "ExtraSectionNotFound", name |-> Head(extras)]
         ELSE RequireExtras(table, Tail(extras),
                            CollectRequired(Unwrap(section), acc, e), e)

\* Synchronizer::required_packages as a function of the node table, the
\* request and the interpreter's environment.
RequiredPackages(table, default, extras, e) ==
    LET start == [kind |-> "Ok", into |-> << >>] IN
    IF ~default THEN RequireExtras(table, extras, start, e)
    ELSE IF ~IsSome(DefaultSection(table))
    THEN [kind |-> "DefaultSectionNotFound"]
    ELSE RequireExtras(table, extras,
            CollectRequired(Unwrap(DefaultSection(table)), start, e), e)

\* The section keys into_lock makes.
PipSectionKeys == {"", "[dev]", "[default]", "[develop]"}

\* Node `section` of table t has exactly one edge per name of `names`, all
\* without a marker, and no other edge.
OneEdgePer(t, section, names) ==
    LET edges == t[section].dependencies IN
    /\ Len(edges) = Cardinality(names)
    /\ \A n \in names :
          Cardinality({i \in 1..Len(edges) : edges[i].child = n}) = 1
    /\ \A i \in 1..Len(edges) :
          edges[i].child \in names /\ ~IsSome(edges[i].marker)

\* C24: the Lock into_lock returns has the four section keys and the
\* package names of `default` and `develop` as its keys; the section nodes
\* carry no package and the others do; "" has one unguarded edge per
\* default package and "[dev]" one per develop package; "[default]" has the
\* one unguarded edge to "" and "[develop]" the one to "[dev]"; and the
\* extra `default` resolves to what the default section resolves to, the
\* packages of `default`, the extra `develop` to what the extra `dev`
\* resolves to, the packages of `develop`.
C24_PipfileLock ==
    pfLock.kind = "Ok" =>
        LET t == pfLock.lock.dependencies
            default == DOMAIN pipfile.default
            develop == DOMAIN pipfile.develop IN
        /\ DOMAIN t = PipSectionKeys \cup default \cup develop
        /\ \A k \in DOMAIN t : IsSome(t[k].python) <=> k \notin PipSectionKeys
        /\ OneEdgePer(t, "", default)
        /\ OneEdgePer(t, "[dev]", develop)
        /\ t["[default]"].dependencies =
              <<[child |-> "", marker |-> None, cell |-> t[""].cell]>>
        /\ t["[develop]"].dependencies =
              <<[child |-> "[dev]", marker |-> None, cell |-> t["[dev]"].cell]>>
        /\ \A e \in Interpreters :
              LET byDefault == RequiredPackages(t, TRUE, << >>, e)
                  byDev == RequiredPackages(t, FALSE, <<"dev">>, e) IN
              /\ byDefault.kind = "Ok" /\ DOMAIN byDefault.into = default
              /\ byDev.kind = "Ok" /\ DOMAIN byDev.into = develop
              /\ RequiredPackages(t, FALSE, <<"default">>, e) = byDefault
              /\ RequiredPackages(t, FALSE, <<"develop">>, e) = byDev

\* C24's case: into_lock returned the Lock of a document with two default
\* packages and a develop package.
C24_Witness ==
    /\ pfLock.kind = "Ok"
    /\ Cardinality(DOMAIN pipfile.default) = 2
    /\ Cardinality(DOMAIN pipfile.develop) = 1
    /\ Len(pfLock.lock.dependencies[""].dependencies) = 2

\* C25: add_dependence(dependent, depended, marker) returns Ok iff both
\* keys are in the table; it then leaves every other node, the keys of the
\* table and the cells as they were and appends the one edge (the node the
\* table holds under depended, marker) to the end of dependent's edges;
\* otherwise it returns the missing key, depended's if that is missing,
\* and changes nothing.
C25_AddDependence ==
    (lastCall # Running /\ lastCall.op = "add_dependence") =>
        LET b == lastCall.before.table
            dependent == lastCall.dependent
            depended == lastCall.depended
            both == dependent \in DOMAIN b /\ depended \in DOMAIN b IN
        /\ lastCall.returned.kind = "Ok" <=> both
        /\ detached = lastCall.before.detached
        /\ cells = lastCall.before.cells
        /\ DOMAIN depsTable = DOMAIN b
        /\ both =>
              /\ \A k \in DOMAIN b \ {dependent} : depsTable[k] = b[k]
              /\ depsTable[dependent].key = b[dependent].key
              /\ depsTable[dependent].python = b[dependent].python
              /\ depsTable[dependent].cell = b[dependent].cell
              /\ depsTable[dependent].dependencies =
                    b[dependent].dependencies
                    \o <<[child |-> depended, marker |-> lastCall.marker,
                          cell |-> b[depended].cell]>>
        /\ ~both =>
              /\ depsTable = b
              /\ lastCall.returned.kind = "Err"
              /\ lastCall.returned.key =
                    IF depended \notin DOMAIN b THEN depended ELSE dependent

\* C25's case: a call that pushed a second edge, with a marker, onto a node
\* of a table of two nodes.
C25_Witness ==
    /\ lastCall # Running /\ lastCall.op = "add_dependence"
    /\ lastCall.returned.kind = "Ok"
    /\ IsSome(lastCall.marker)
    /\ lastCall.dependent # lastCall.depended
    /\ Len(depsTable[lastCall.dependent].dependencies) = 2

\* A node of the table under construction has an edge.
SomeEdgeLinked ==
    \E k \in DOMAIN deps : Len(deps[k].dependencies) > 0

\* The error of a package body that names a source missing from `sources`.
IsSourceError(r) ==
    /\ r.kind = "Err"
    /\ \E n \in SourceNames \ doc.sources :
          r.msg = "unresolvable source name \"" \o n \o "\""

\* C26: no edge is linked before every body of the document has been made
\* a node; a document with a body that cannot be made a node is rejected
\* with that body's error, whether or not it also lists a child key that
\* is no key of the document; and a document all of whose bodies can be
\* made nodes and all of whose child keys are keys of the document is
\* accepted in whatever order its entries are read, so an edge may target
\* a node made after the edge's own node.
C26_NodesBeforeEdges ==
    /\ SomeEdgeLinked =>
          /\ DOMAIN dents = {}
          /\ DOMAIN deps = DOMAIN doc.dependencies
    /\ (BadSource /\ parsed.kind # "Running") => IsSourceError(parsed)
    /\ (~BadSource /\ ~Dangling /\ parsed.kind # "Running") =>
          parsed.kind = "Ok"

\* C26's case: a document of three bodies with both a body that names an
\* unknown source and a child key that is no key of the document was
\* rejected.
C26_Witness ==
    /\ parsed.kind = "Err"
    /\ Cardinality(DOMAIN doc.dependencies) = 3
    /\ BadSource
    /\ Dangling

\* C27: after any sequence of add_dependency and add_dependence calls,
\* every edge of every node reachable from the table targets the node the
\* table holds under the target's key, and no two distinct nodes of the
\* graph have the same key.
C27_OneNodePerKey ==
    /\ \A n \in TableGraph :
          \A i \in 1..Len(n.dependencies) :
             LET edge == n.dependencies[i] IN
             /\ edge.child \in DOMAIN depsTable
             /\ edge.cell = depsTable[edge.child].cell
    /\ \A n, m \in TableGraph : n.key = m.key => n.cell = m.cell


\* The requirement files of all the packages of the resolved set.
AllRequirementFiles == {TempPath(k) : k \in DOMAIN into}

\* C28: install_into starts no installer until the requirement file of
\* every resolved package has been created and written: whenever an
\* installer has been started all the files have been written and no
\* package is waiting for its file, and a call whose file creation or
\* write failed has returned its error with no installer started.
C28_FilesBeforeInstallers ==
    /\ installLog # << >> =>
          /\ created = AllRequirementFiles
          /\ packages = {}
    /\ pc = "prepare" => installLog = << >>
    /\ (pc = "done" /\ created # AllRequirementFiles) =>
          /\ installLog = << >>
          /\ result.kind # "Ok"
    /\ (pc = "done" /\ result.kind = "PathRepresentationError") =>
          installLog = << >>

\* The second of two requirement files could not be written: the call has
\* returned the error, the first file was written, no installer ran.
C28_Witness ==
    /\ pc = "done"
    /\ result.kind = "SystemError"
    /\ Cardinality(DOMAIN into) = 2
    /\ Cardinality(created) = 1
    /\ installLog = << >>


\* The requested roots that are nodes of the Lock.
PresentRoots == RootKeys \cap DOMAIN lock

\* evaluate_marker returns an error for the edge's marker.
EdgeInvalid(edge) ==
    /\ IsSome(edge.marker)
    /\ ~MarkerIsEmpty(Unwrap(edge.marker))
    /\ \A text \in Diagnostics :
          MarkerResult(PythonOutput(MarkerExpr(Unwrap(edge.marker)), env,
                                    text)).kind # "Ok"

\* The section nodes one open edge away from the nodes of S.
SectionSteps(S) ==
    {c \in DOMAIN lock :
        /\ ~IsSome(lock[c].python)
        /\ \E k \in S : \E i \in 1..Len(lock[k].dependencies) :
              /\ lock[k].dependencies[i].child = c
              /\ EdgeOpen(lock[k].dependencies[i])}

RECURSIVE SectionsBelow(_)
\* The section nodes one or more open edges away, through section nodes.
SectionsBelow(S) ==
    LET T == S \cup SectionSteps(S) IN
    IF T = S THEN S ELSE SectionsBelow(T)

\* What a resolution does, as a function of the Lock's edges as sets, of the
\* requested roots as a set and of the evaluator: it fails when a requested
\* section is missing, when a reachable node has an edge whose marker the
\* evaluator rejects, or when a reachable section node lies on a cycle of
\* section nodes (which no contains_key guard ever stops).
ResolutionFails ==
    LET reach == ReachableFrom(PresentRoots) IN
    \/ RootKeys # PresentRoots
    \/ \E k \in reach : \E i \in 1..Len(lock[k].dependencies) :
          EdgeInvalid(lock[k].dependencies[i])
    \/ \E k \in reach :
          /\ ~IsSome(lock[k].python)
          /\ k \in SectionsBelow(SectionSteps({k}))

\* The packages a resolution returns when it succeeds, by the same inputs.
ResolutionSet ==
    LET want == {k \in ReachableFrom(PresentRoots) : IsSome(lock[k].python)} IN
    [k \in want |-> Unwrap(lock[k].python)]

\* sync has returned an error of required_packages: `?` left sync before
\* `packages` was bound.
ResolutionFailed ==
    \/ pc = "aborted"
    \/ /\ pc = "done"
       /\ ~IsSome(required)
       /\ result.kind \in {"DefaultSectionNotFound", "ExtraSectionNotFound",
                           "InvalidMarkerError", "InterpreterError",
                           "SystemError"}

\* C29: resolution does not depend on the order of a node's edges or of the
\* requested extras: with an evaluator that can always be started, whether a
\* run fails and, when it succeeds, the set it returns are what the edges
\* as sets, the roots as a set and the evaluator determine, and the
\* installer invocations planned are those of that set.
C29_OrderIndependent ==
    /\ pc = "env_root" =>
          /\ ~ResolutionFails
          /\ into = ResolutionSet
    /\ (ResolutionFailed /\ faults = 0) => ResolutionFails
    /\ pc = "install" => Attempted \cup DOMAIN requirements = DOMAIN into

\* C29's case: a resolution of the default section and of an extra that
\* has just succeeded with the default section's edges listed against the
\* order of their targets, one of them behind a marker.
C29_Witness ==
    /\ pc = "env_root"
    /\ reqDefault
    /\ reqExtras = <<"a">>
    /\ Len(lock[""].dependencies) = 2
    /\ lock[""].dependencies[1].child = "q"
    /\ lock[""].dependencies[2].child = "p"
    /\ Len(evalLog) >= 1
    /\ DOMAIN into = {"p", "q"}


\* C30: Project::find terminates for every starting path that
\* canonicalises: every call returns, also when the path is not a
\* directory.
C30_FindTerminates == <>(findPc = "done")

====
